---- MODULE Spec2Model ----
(***************************************************************************)
(* State-machine model of the waybar-music scripts.                        *)
(*                                                                         *)
(*   scripts/lyrics.py : listen_to_playerctl_and_update_waybar, the        *)
(*                       reactor loop that follows `playerctl --follow`,   *)
(*                       resolves lyrics and prints waybar snapshots.      *)
(*   scripts/player.py : main_loop_async, the same loop for the player     *)
(*                       module; it prints the track and asks for cover    *)
(*                       art.                                              *)
(*                                                                         *)
(* The two scripts are separate programs.  A behaviour is a run of one of  *)
(* them, named by `script`; the variables both loops have under the same   *)
(* name (playerctl_process, is_parsing_metadata_block,                     *)
(* active_metadata_dict) are that script's.                                *)
(*                                                                         *)
(* Text is modelled as a sequence of symbols.  A symbol is either one      *)
(* whitespace character, the colon, one decimal digit, the undecodable     *)
(* byte, or a run of other characters that the code never looks into       *)
(* (a word such as "title" or "Playing").  str.strip, str.lower,           *)
(* str.split(":", 1), int() and the `in` substring test are computed on    *)
(* these sequences the way Python computes them on characters.             *)
(***************************************************************************)
EXTENDS Integers, Sequences, FiniteSets, TLC

VARIABLES
    script,                 \* the program that runs: "lyrics" or "player"
    pc,                     \* where the script is: "start", "loop", "returned", "crashed", "cancelled"
    cached_song_info,       \* lyrics.py:50  the session state (a dict)
    last_processed_playerctl_track_id_from_event,   \* lyrics.py:60
    playerctl_process,      \* lyrics.py:258 the handle: "None", "running" or "exited"
    is_parsing_metadata_block,  \* lyrics.py:272
    active_metadata_dict,   \* lyrics.py:271
    song_info_cache_file,   \* the document at SONG_INFO_CACHE_FILE
    lyrics_files,           \* the documents under LYRICS_FILES_DIR, by path
    current_player_status_cache,            \* player.py:77
    last_processed_mpris_track_id_global,   \* player.py:76
    last_known_art_url,                     \* player.py:74
    last_track_id_file,     \* the document at LAST_TRACK_ID_CACHE_PATH
    last_art_operation_timestamp,           \* player.py:75
    art_completed_at,       \* when process_album_art last reached its end at line 235
                            \* (observation only)
    art_tasks,              \* the process_album_art tasks created and not finished, oldest
                            \* first (followed in SpecArt, NotFollowed elsewhere)
    art_files,              \* the files under ALBUM_COVERS_DIR_PATH, by name
    current_art,            \* the target of the link at CURRENT_ART_SYMLINK_PATH, or None
    last_block,             \* title and artist of the last block shown (observation only)
    now,                    \* time.time()
    alive,                  \* how many subprocesses started by this run are alive
    turn,                   \* what the last step of the script did (observation only)
    received,               \* the key:value lines read since the last begin marker
                            \* (observation only; kept in SpecParser, NotKept elsewhere)
    status_checks           \* how many `playerctl status` processes started by this run are
                            \* alive (counted in SpecProbes, NotCounted elsewhere)

\* the state of player.py that lyrics.py does not have
player_state == << current_player_status_cache, last_processed_mpris_track_id_global,
                   last_known_art_url, last_track_id_file, last_art_operation_timestamp,
                   art_completed_at, art_tasks, art_files, current_art, last_block >>

\* the state of lyrics.py that player.py does not have
lyrics_state == << cached_song_info, last_processed_playerctl_track_id_from_event,
                   song_info_cache_file, lyrics_files >>

vars == << script, pc, cached_song_info, last_processed_playerctl_track_id_from_event,
           playerctl_process, is_parsing_metadata_block, active_metadata_dict,
           song_info_cache_file, lyrics_files, player_state, now, alive, turn, received,
           status_checks >>

----------------------------------------------------------------------------
(* Python values *)

\* Python's None where a str is expected: a sequence no text can equal.
None == << "<None>" >>

\* bool(x) of a str-or-None / list value.
Truthy(x) == x # None /\ x # << >>

\* `x or ""`
OrEmpty(x) == IF Truthy(x) THEN x ELSE << >>

Whitespace == { " ", "\n" }

RECURSIVE LStrip(_)
LStrip(s) == IF s = << >> THEN s
             ELSE IF Head(s) \in Whitespace THEN LStrip(Tail(s)) ELSE s

RECURSIVE RStrip(_)
RStrip(s) == IF s = << >> THEN s
             ELSE IF s[Len(s)] \in Whitespace THEN RStrip(SubSeq(s, 1, Len(s) - 1)) ELSE s

\* str.strip()
Strip(s) == RStrip(LStrip(s))

\* str.lower() on one symbol
LowerChar(c) ==
    CASE c = "A" -> "a"
      [] c = "B" -> "b"
      [] c = "X" -> "x"
      [] c = "Playing" -> "playing"
      [] c = "Paused" -> "paused"
      [] c = "Stopped" -> "stopped"
      [] c = "No" -> "no"
      [] OTHER -> c

\* str.lower()
Lower(s) == IF s = << >> THEN << >> ELSE [i \in 1..Len(s) |-> LowerChar(s[i])]

\* `sub in s` for str
Contains(s, sub) ==
    \E i \in 1..(Len(s) - Len(sub) + 1) : SubSeq(s, i, i + Len(sub) - 1) = sub

\* index of the first colon of s, 0 when there is none
RECURSIVE FirstColon(_, _)
FirstColon(s, i) == IF i > Len(s) THEN 0
                    ELSE IF s[i] = ":" THEN i ELSE FirstColon(s, i + 1)

Digits == { "0", "1", "2", "3", "4", "5", "6", "7", "8", "9" }

DigitValue(c) ==
    CASE c = "0" -> 0 [] c = "1" -> 1 [] c = "2" -> 2 [] c = "3" -> 3 [] c = "4" -> 4
      [] c = "5" -> 5 [] c = "6" -> 6 [] c = "7" -> 7 [] c = "8" -> 8 [] c = "9" -> 9

RECURSIVE DecimalValue(_, _)
DecimalValue(s, acc) == IF s = << >> THEN acc
                        ELSE DecimalValue(Tail(s), acc * 10 + DigitValue(Head(s)))

\* whether int(s) succeeds (an optional sign, then digits, whitespace around allowed)
IsIntLiteral(s) ==
    LET t == Strip(s)
        u == IF t # << >> /\ Head(t) \in { "-", "+" } THEN Tail(t) ELSE t
    IN  u # << >> /\ \A i \in 1..Len(u) : u[i] \in Digits

\* int(s) where it succeeds
IntOf(s) ==
    LET t == Strip(s)
        u == IF Head(t) \in { "-", "+" } THEN Tail(t) ELSE t
    IN  IF Head(t) = "-" THEN 0 - DecimalValue(u, 0) ELSE DecimalValue(u, 0)

(* dict *)
EmptyDict == << >>

\* mutant: a key already present keeps its value
DictPutIfAbsent(d, k, v) == [x \in (DOMAIN d) \cup {k} |-> IF x \in DOMAIN d THEN d[x] ELSE v]

\* d[k] = v
DictPut(d, k, v) == [x \in (DOMAIN d) \cup {k} |-> IF x = k THEN v ELSE d[x]]

\* d.get(k, default)
DictGet(d, k, default) == IF k \in DOMAIN d THEN d[k] ELSE default

----------------------------------------------------------------------------
(* lyrics.py: helper functions *)

\* characters sanitize_filename deletes: [\\:*?"<>|]
ForbiddenChars == { "\\", ":", "*", "?", "\"", "<", ">", "|" }

\* name.replace('/', '_') then re.sub(r'[\\:*?"<>|]', '', name)
RECURSIVE ReplaceAndDelete(_)
ReplaceAndDelete(s) ==
    IF s = << >> THEN << >>
    ELSE IF Len(s) = 1
    THEN IF Head(s) = "/" THEN << "_" >>
         ELSE IF Head(s) \in ForbiddenChars THEN << >>
         ELSE s
    ELSE ReplaceAndDelete(SubSeq(s, 1, Len(s) \div 2))
         \o ReplaceAndDelete(SubSeq(s, Len(s) \div 2 + 1, Len(s)))

\* re.sub(r'\s+', ' ', name)
CollapseWhitespace(s) ==
    LET kept == SelectSeq([ i \in 1..Len(s) |-> i ],
                          LAMBDA i : s[i] \notin Whitespace
                                     \/ (IF i = 1 THEN TRUE ELSE s[i - 1] \notin Whitespace))
    IN  [ k \in 1..Len(kept) |-> IF s[kept[k]] \in Whitespace THEN " " ELSE s[kept[k]] ]

\* len(c.encode('utf-8')) of one character
ByteLen(c) == IF c = "U+00E9" THEN 2 ELSE IF c = "U+6B4C" THEN 3 ELSE 1

RECURSIVE Utf8Len(_)
Utf8Len(s) ==
    IF s = << >> THEN 0
    ELSE IF Len(s) = 1 THEN ByteLen(Head(s))
    ELSE Utf8Len(SubSeq(s, 1, Len(s) \div 2)) + Utf8Len(SubSeq(s, Len(s) \div 2 + 1, Len(s)))

\* byte_limit of sanitize_filename
byte_limit == 200

\* while len(temp_name.encode('utf-8', 'ignore')) > byte_limit: temp_name = temp_name[:-1]
RECURSIVE TruncateToBytes(_, _)
TruncateToBytes(s, limit) ==
    IF Utf8Len(s) > limit THEN TruncateToBytes(SubSeq(s, 1, Len(s) - 1), limit) ELSE s

\* hashlib.sha1(name.encode('utf-8')).hexdigest()[:10] : one symbol per digest
Sha1Prefix(s) == IF s = << >> THEN << "da39a3ee5e" >> ELSE << "sha1" >> \o s

\* sanitize_filename(name)
sanitize_filename(name) ==
    LET cleaned      == Strip(CollapseWhitespace(ReplaceAndDelete(name)))
        original_len == Len(cleaned)
        truncated    == Strip(TruncateToBytes(cleaned, byte_limit))
    IN  IF truncated = << >> /\ original_len > 0 THEN Sha1Prefix(truncated)
        ELSE IF truncated # << >> THEN truncated
        ELSE << "_empty_title_" >>

\* get_lyrics_file_path(title, artist): the file name under LYRICS_FILES_DIR
get_lyrics_file_path(title, artist) ==
    LET safe_title  == sanitize_filename(title)
        safe_artist == sanitize_filename(artist)
    IN  IF safe_title = << >> /\ safe_artist = << >> THEN << "unknown_song", ".lrc" >>
        ELSE IF safe_artist # << >> THEN safe_artist \o << " ", "-", " " >> \o safe_title \o << ".lrc" >>
        ELSE safe_title \o << ".lrc" >>

(* An LRC document is a sequence of lines, each already matched against    *)
(* parse_lrc's regular expressions:                                        *)
(*   [kind |-> "offset", offset |-> n]              a line [offset:n]      *)
(*   [kind |-> "lyric", tags |-> <<tag,..>>, text]  [mm:ss.fff] tags       *)
(*        and the text after the last "]"; tag = [mm, ss, frac]            *)
(*   [kind |-> "plain", text]                       no bracket at all      *)
(*   [kind |-> "meta", text]                        [ar:...] and the like  *)

\* milliseconds = int(milliseconds_str.ljust(3, '0')[:3]) if milliseconds_str else 0
FractionMs(frac) ==
    IF frac = << >> THEN 0
    ELSE DecimalValue(SubSeq(frac \o << "0", "0", "0" >>, 1, 3), 0)

\* one tag's timestamp: shifted by the offset, clamped at 0
TagMs(tag, global_offset_ms) ==
    LET t == (tag.mm * 60 + tag.ss) * 1000 + FractionMs(tag.frac) - global_offset_ms
    IN  IF t < 0 THEN 0 ELSE t

\* the entries one line appends to `lyrics`
LrcLineEntries(line, global_offset_ms, lyrics) ==
    LET lyric_text == IF line.kind \in { "lyric", "meta" } THEN Strip(line.text) ELSE << >>
        stripped   == Strip(line.text)
    IN  IF lyric_text # << >> THEN
            IF line.kind = "lyric"
            THEN [i \in 1..Len(line.tags) |-> << TagMs(line.tags[i], global_offset_ms), lyric_text >>]
            ELSE << >>
        ELSE IF line.kind = "plain" /\ stripped # << >> THEN
            IF lyrics = << >> \/ lyrics[Len(lyrics)][2] # stripped
            THEN << << (IF lyrics = << >> THEN 0 ELSE lyrics[Len(lyrics)][1]), stripped >> >>
            ELSE << >>
        ELSE << >>

RECURSIVE LrcScan(_, _, _)
LrcScan(lines, global_offset_ms, lyrics) ==
    IF lines = << >> THEN lyrics
    ELSE LET line == Head(lines)
         IN  IF line.kind = "offset"
             THEN LrcScan(Tail(lines), line.offset, lyrics)
             ELSE LrcScan(Tail(lines), global_offset_ms,
                          lyrics \o LrcLineEntries(line, global_offset_ms, lyrics))

\* insert e behind every entry whose timestamp is <= e's (a stable sort step)
RECURSIVE InsertByTimestamp(_, _)
InsertByTimestamp(sorted, e) ==
    IF sorted = << >> THEN << e >>
    ELSE IF Head(sorted)[1] <= e[1] THEN << Head(sorted) >> \o InsertByTimestamp(Tail(sorted), e)
    ELSE << e >> \o sorted

\* mutant: the entries stay in the order of the document
Unsorted(todo, sorted) == todo

\* lyrics.sort(key=lambda x: x[0])
RECURSIVE SortByTimestamp(_, _)
SortByTimestamp(todo, sorted) ==
    IF todo = << >> THEN sorted
    ELSE SortByTimestamp(Tail(todo), InsertByTimestamp(sorted, Head(todo)))

\* parse_lrc(lrc_content)
parse_lrc(lrc_content) ==
    IF lrc_content = << >> THEN << >>
    ELSE SortByTimestamp(LrcScan(lrc_content, 0, << >>), << >>)

\* the for loop of lines 378-384: state <<current, next, found>> after entries i..len
RECURSIVE ScanLyrics(_, _, _, _)
ScanLyrics(lyrics, i, position_ms, st) ==
    IF i > Len(lyrics) THEN st
    ELSE IF position_ms >= lyrics[i][1]
         THEN ScanLyrics(lyrics, i + 1, position_ms,
                         [current |-> lyrics[i][2],
                          next    |-> IF i + 1 <= Len(lyrics) THEN lyrics[i + 1][2] ELSE st.next,
                          found   |-> TRUE])
         ELSE st

\* mutant: the next line is not blanked at the end of the list (line 388 left out)
SelectWithoutEndRule(lyrics, position_ms) ==
    LET scanned == ScanLyrics(lyrics, 1, position_ms,
                              [current |-> << >>, next |-> << >>, found |-> FALSE])
    IN  IF scanned.found THEN [current |-> scanned.current, next |-> scanned.next]
        ELSE [current |-> lyrics[1][2],
              next    |-> IF Len(lyrics) > 1 THEN lyrics[2][2] ELSE << >>]

\* lines 376-388: the current and the next lyric line of a non-empty list
SelectLyricLines(lyrics, position_ms) ==
    LET scanned == ScanLyrics(lyrics, 1, position_ms,
                              [current |-> << >>, next |-> << >>, found |-> FALSE])
        first   == IF scanned.found THEN scanned
                   ELSE [current |-> lyrics[1][2],
                         next    |-> IF Len(lyrics) > 1 THEN lyrics[2][2] ELSE << >>,
                         found   |-> FALSE]
    IN  [current |-> first.current,
         next    |-> IF position_ms >= lyrics[Len(lyrics)][1] THEN << >> ELSE first.next]

\* lines 335-340: song_changed
SongChanged(current_playerctl_track_id, title, artist, last_id, cached) ==
    LET song_changed_via_track_id == current_playerctl_track_id # last_id
        song_changed_via_meta ==
            \/ Lower(title) # Lower(OrEmpty(cached.title))
            \/ Lower(artist) # Lower(OrEmpty(cached.artist))
    IN  song_changed_via_track_id
        \/ (~Truthy(current_playerctl_track_id) /\ song_changed_via_meta)

----------------------------------------------------------------------------
(* lyrics.py: configuration and the session state *)

PLAYERCTL_RESTART_DELAY_SECONDS == 5
PLAYERCTL_RESTART_FAILURE_DELAY_SECONDS == 10
PLAYERCTL_DATA_BEGIN_MARKER == << "PLAYERCTL_LYRICS_SCRIPT_BEGIN_METADATA_V2" >>
PLAYERCTL_DATA_END_MARKER == << "PLAYERCTL_LYRICS_SCRIPT_END_METADATA_V2" >>

\* the freshness window of line 343
CACHE_EXPIRY_SECONDS == 3600

\* the module-level value of cached_song_info, and load_song_info_cache's default
DefaultSongInfo ==
    [ title |-> None, artist |-> None, qq_song_mid |-> None,
      lyrics_file_path |-> None, lyrics_parsed_content |-> << >>,
      last_fetched_timestamp |-> 0, playerctl_track_id |-> None,
      status |-> << "stopped" >> ]

SongInfoKeys == DOMAIN DefaultSongInfo

\* mutant: the stop line leaves the session state as it is
C1_KeepSongInfo(info) == info

\* mutant: the session is cleared to the defaults, fetch time included
ClearToDefaults(info) == [ DefaultSongInfo EXCEPT !.status = << "stopped" >> ]

\* mutant: the clear forgets the title, the artist and the track id and keeps
\* the lyrics, their file path and their source id
ClearKeepsLyrics(info) ==
    [ info EXCEPT !.title = None, !.artist = None, !.playerctl_track_id = None,
                  !.status = << "stopped" >> ]

\* cached_song_info.update({...}) of lines 426-428, 466-470 and 482
ClearSongInfo(info) ==
    [ info EXCEPT !.title = None, !.artist = None, !.lyrics_parsed_content = << >>,
                  !.playerctl_track_id = None, !.qq_song_mid = None,
                  !.lyrics_file_path = None, !.status = << "stopped" >> ]

(* The file at SONG_INFO_CACHE_FILE: absent, or JSON text.  JSON text is   *)
(* [json |-> "object", value |-> members], [json |-> "array"] (valid JSON  *)
(* that is no object) or [json |-> "invalid"].                             *)
NoFile == [ exists |-> FALSE, json |-> "none", value |-> << >> ]

\* the JSON value json.dump writes for member k with the Python value v: None
\* is written as null, a str as a string, the timestamp as a number, and the
\* list of (timestamp, text) tuples as an array of two-element arrays
JsonMember(k, v) ==
    IF k = "last_fetched_timestamp" THEN [ type |-> "number", value |-> v ]
    ELSE IF k = "lyrics_parsed_content" THEN [ type |-> "array", value |-> v ]
    ELSE IF v = None THEN [ type |-> "null", value |-> << >> ]
    ELSE [ type |-> "string", value |-> v ]

\* the Python value json.load gives for the JSON value j
PythonValue(j) == IF j.type = "null" THEN None ELSE j.value

\* json.dump(cache_data, f)
json_dump(cache_data) ==
    [ exists |-> TRUE, json |-> "object",
      value |-> [ k \in DOMAIN cache_data |-> JsonMember(k, cache_data[k]) ] ]

\* mutant: the session document is not written
SaveSkipped(cache_data) == song_info_cache_file

\* save_song_info_cache(cache_data): the file after the call
save_song_info_cache(cache_data) == json_dump(cache_data)

\* load_song_info_cache(): [raised, value, file]
load_song_info_cache(file) ==
    IF ~file.exists THEN [ raised |-> FALSE, value |-> DefaultSongInfo, file |-> file ]
    ELSE IF file.json = "invalid"
         THEN [ raised |-> FALSE, value |-> DefaultSongInfo, file |-> NoFile ]
    ELSE IF file.json = "object"
         THEN [ raised |-> FALSE,
                value  |-> [ k \in SongInfoKeys \cup DOMAIN file.value |->
                               IF k \in DOMAIN file.value THEN PythonValue(file.value[k])
                               ELSE DefaultSongInfo[k] ],
                file   |-> file ]
    ELSE \* `cache_data[key] = default_value` on a list, str or number: TypeError
         [ raised |-> TRUE, value |-> DefaultSongInfo, file |-> file ]

\* What one step of the script did; read by the properties only.  `line` is
\* what readline() returned, `probe` how `playerctl status` ended, `repeat`
\* the branch the step before took when it was given the same, "no" otherwise.
NoProbe == [ how |-> "none", returncode |-> 0, stdout |-> << >> ]

\* what a step of process_album_art did: none
NoArt == [ did |-> "nothing" ]

NoBlock == [ title |-> None, artist |-> None, status |-> None, track_id |-> None, position_ms |-> 0 ]

Idle(branch) ==
    [ branch |-> branch, snapshots |-> << >>, saves |-> 0, lines |-> 0, probes |-> 0,
      launches |-> 0, started |-> 0, waits |-> 0, slept |-> 0, kills |-> 0, tasks |-> 0, yielded |-> FALSE, block |-> NoBlock,
      song_changed |-> FALSE, resolved |-> FALSE, looked_up |-> FALSE,
      current_lyric_line |-> << >>, next_lyric_line |-> << >>,
      error |-> "none", line |-> None, probe |-> NoProbe, repeats |-> "no",
      order |-> << >>, launch |-> "none", art |-> NoArt ]

\* the dict output_waybar_json prints
Snapshot(text, tooltip, css_class) == [ text |-> text, tooltip |-> tooltip, class |-> css_class ]

----------------------------------------------------------------------------
(* lyrics.py: lyric resolution (lines 350-360) *)

(* The lookup service is outside the repository.  What it holds for a      *)
(* query is fixed by the title; `api` says how the call ends: "error" (an   *)
(* exception in the search or in the download), "no_results" (the search    *)
(* gives no list or an empty one), "no_mid" (no result matches and the      *)
(* first one has no id), "empty_payload" (the document has no lyric text),  *)
(* "lyrics" (a document with timed lines) or "untimed" (a document without  *)
(* any timed text).                                                         *)
LrcTag(m, sec) == [ mm |-> m, ss |-> sec, frac |-> << >> ]

QQMusicDocument(title, api) ==
    IF api = "lyrics"
    THEN << [ kind |-> "lyric", tags |-> << LrcTag(0, 0) >>, text |-> title \o << "1" >> ],
            [ kind |-> "lyric", tags |-> << LrcTag(0, 5) >>, text |-> title \o << "2" >> ] >>
    ELSE IF api = "untimed"
    THEN << [ kind |-> "meta", text |-> << >> ] >>
    ELSE << >>

\* `return [], None, None`
NoLyrics == [ parsed |-> << >>, song_mid |-> None, lrc |-> None ]

\* fetch_lyrics_from_qqmusic_api(title, artist): (parsed, song_mid, lrc_content)
fetch_lyrics_from_qqmusic_api(title, artist, api) ==
    LET lrc_content == QQMusicDocument(title, api)
    IN  IF api = "error" THEN NoLyrics            \* lines 210-212
        ELSE IF api = "no_results" THEN NoLyrics  \* lines 176-178
        ELSE IF api = "no_mid" THEN NoLyrics      \* lines 207-208, 212
        ELSE IF lrc_content # << >>               \* lines 202-204
        THEN [ parsed |-> parse_lrc(lrc_content), song_mid |-> << "mid" >> \o title, lrc |-> lrc_content ]
        ELSE NoLyrics                             \* lines 205-206, 212

\* load_lyrics_from_local_file(title, artist): (parsed, file_path)
load_lyrics_from_local_file(title, artist, files) ==
    LET file_path == get_lyrics_file_path(title, artist)
    IN  IF file_path \in DOMAIN files
        THEN [ parsed |-> parse_lrc(files[file_path]), file_path |-> file_path ]
        ELSE [ parsed |-> << >>, file_path |-> None ]

\* save_lyrics_to_local_file(title, artist, lrc_content): the files afterwards
save_lyrics_to_local_file(title, artist, lrc_content, files) ==
    IF lrc_content = << >> \/ title = << >> THEN files
    ELSE LET file_path == get_lyrics_file_path(title, artist)
         IN  [ f \in (DOMAIN files) \cup { file_path } |->
                 IF f = file_path THEN lrc_content ELSE files[f] ]

\* lines 352-360: [parsed_lyrics, qq_song_mid, file_path, files, looked_up]
ResolveLyrics(title, artist, info, files, api) ==
    LET local   == load_lyrics_from_local_file(title, artist, files)
        fetched == fetch_lyrics_from_qqmusic_api(title, artist, api)
    IN  IF local.parsed # << >>
        THEN [ parsed_lyrics |-> local.parsed, qq_song_mid |-> info.qq_song_mid,
               file_path |-> local.file_path, files |-> files, looked_up |-> FALSE ]
        ELSE IF fetched.parsed # << >> /\ Truthy(fetched.lrc)
        THEN [ parsed_lyrics |-> fetched.parsed, qq_song_mid |-> fetched.song_mid,
               file_path |-> get_lyrics_file_path(title, artist),
               files |-> save_lyrics_to_local_file(title, artist, fetched.lrc, files),
               looked_up |-> TRUE ]
        ELSE [ parsed_lyrics |-> fetched.parsed, qq_song_mid |-> fetched.song_mid,
               file_path |-> local.file_path, files |-> files, looked_up |-> TRUE ]

\* mutant: the age of the cached lyrics is not looked at
ShouldFetchIgnoringAge(title, song_changed, info, files, t) ==
    \/ (song_changed /\ Truthy(title))
    \/ (Truthy(title) /\ ~Truthy(info.lyrics_parsed_content))
    \/ (Truthy(title) /\ ~(Truthy(info.lyrics_file_path) /\ info.lyrics_file_path \in DOMAIN files))

\* lines 342-348: should_fetch_new_lyrics
ShouldFetchNewLyrics(title, song_changed, info, files, t) ==
    LET lyrics_file_exists == Truthy(info.lyrics_file_path) /\ info.lyrics_file_path \in DOMAIN files
        cache_expired      == (t - info.last_fetched_timestamp) > CACHE_EXPIRY_SECONDS
    IN  \/ (song_changed /\ Truthy(title))
        \/ (Truthy(title) /\ ~Truthy(info.lyrics_parsed_content))
        \/ (Truthy(title) /\ ~lyrics_file_exists)
        \/ (Truthy(title) /\ cache_expired)

\* str.capitalize()
Capitalize(s) ==
    IF s = << >> THEN s
    ELSE << (CASE s[1] = "playing" -> "Playing" [] s[1] = "paused" -> "Paused"
               [] s[1] = "stopped" -> "Stopped" [] s[1] = "a" -> "A" [] s[1] = "b" -> "B"
               [] OTHER -> s[1]) >> \o Tail(s)

\* lines 371-400: the snapshot of a block, with the two lyric lines it shows
BlockSnapshot(title, artist, status_from_block, position_ms, lyrics_to_display) ==
    LET active == status_from_block \in { << "playing" >>, << "paused" >> }
        lines  == IF active /\ lyrics_to_display # << >>
                  THEN SelectLyricLines(lyrics_to_display, position_ms)
                  ELSE [ current |-> << >>, next |-> << >> ]
        display_text ==
            IF ~active THEN << "No Media Playing" >>
            ELSE IF lyrics_to_display # << >>
                 THEN (IF lines.current # << >> THEN lines.current ELSE << "..." >>)
            ELSE IF title # << >> THEN title \o << " ", "-", " " >> \o artist
            ELSE << "Lyrics not found" >>
        css_class_out == IF active THEN status_from_block ELSE << "offline" >>
        tooltip ==
            << << "Song: " >> \o (IF title # << >> THEN title ELSE << "N/A" >>),
               << "Artist: " >> \o (IF artist # << >> THEN artist ELSE << "N/A" >>),
               << "Status: " >> \o Capitalize(status_from_block) >>
            \o (IF lines.current # << >> THEN << << "Now: " >> \o lines.current >> ELSE << >>)
            \o (IF lines.next # << >> THEN << << "Next: " >> \o lines.next >>
                ELSE IF lyrics_to_display # << >> /\ lines.current # << >>
                        /\ lines.current = lyrics_to_display[Len(lyrics_to_display)][2]
                     THEN << << "Next: (End)" >> >>
                ELSE << >>)
    IN  [ snapshot |-> Snapshot(display_text, tooltip, css_class_out),
          current |-> lines.current, next |-> lines.next ]

----------------------------------------------------------------------------
(* lyrics.py: one line of the subprocess (lines 303-431) *)

\* the byte bytes.decode('utf-8') raises UnicodeDecodeError on
UndecodableByte == "\\xff"

\* what StreamReader.readline() gives when the line exceeds its limit: ValueError
LimitOverrun == << "<LimitOverrunError>" >>

\* the phrases of lines 420-422
IsStopLine(lower_line) ==
    \/ Contains(lower_line, << "no", " ", "player", " ", "is", " ", "running" >>)
    \/ Contains(lower_line, << "no", " ", "players", " ", "found" >>)
    \/ Contains(lower_line, << "stopped" >>)

\* lines 423, 463 and 480: is there anything to clear
HasActiveSession(info) == info.status # << "stopped" >> \/ Truthy(info.title)

\* lines 322-331: what the block says
BlockFields(metadata_dict) ==
    [ title    |-> Strip(DictGet(metadata_dict, << "title" >>, << >>)),
      artist   |-> Strip(DictGet(metadata_dict, << "artist" >>, << >>)),
      status   |-> Lower(DictGet(metadata_dict, << "status" >>, << "stopped" >>)),
      track_id |-> DictGet(metadata_dict, << "track_id" >>, << >>),
      position_ms |->
          (IF IsIntLiteral(DictGet(metadata_dict, << "position_us" >>, << "0" >>))
           THEN IntOf(DictGet(metadata_dict, << "position_us" >>, << "0" >>))
           ELSE 0) \div 1000 ]

\* lines 362-369: the session state after lyric resolution gave r
Resolved(block, info, r, t) ==
    [ info EXCEPT !.title = block.title, !.artist = block.artist,
                  !.qq_song_mid = r.qq_song_mid,
                  !.lyrics_file_path = r.file_path,
                  !.lyrics_parsed_content = r.parsed_lyrics,
                  !.last_fetched_timestamp = t,
                  !.playerctl_track_id = block.track_id ]

\* lines 371-405: print the snapshot and finish the block
FinishBlock(block, song_changed, should_fetch_new_lyrics, r, info, shown, stdout_ok) ==
    [ raised  |-> ~stdout_ok,
      info    |-> info,
      last    |-> IF stdout_ok THEN block.track_id
                  ELSE last_processed_playerctl_track_id_from_event,
      process |-> playerctl_process,
      parsing |-> FALSE,
      dict    |-> IF stdout_ok THEN EmptyDict ELSE active_metadata_dict,
      cache_file |-> IF should_fetch_new_lyrics THEN save_song_info_cache(info)
                     ELSE song_info_cache_file,
      files   |-> IF should_fetch_new_lyrics THEN r.files ELSE lyrics_files,
      turn    |-> [ Idle("block") EXCEPT
                      !.lines = 1, !.yielded = TRUE,
                      !.block = block,
                      !.song_changed = song_changed,
                      !.resolved = should_fetch_new_lyrics,
                      !.looked_up = should_fetch_new_lyrics /\ r.looked_up,
                      !.saves = IF should_fetch_new_lyrics THEN 1 ELSE 0,
                      !.snapshots = IF stdout_ok THEN << shown.snapshot >> ELSE << >>,
                      !.current_lyric_line = shown.current,
                      !.next_lyric_line = shown.next ] ]

\* mutant: the snapshot is printed only when the lyrics were resolved
ShowOnlyWhenResolved(block, song_changed, should_fetch_new_lyrics, r, info, stdout_ok) ==
    [ FinishBlock(block, song_changed, should_fetch_new_lyrics, r, info,
                  BlockSnapshot(block.title, block.artist, block.status, block.position_ms,
                                info.lyrics_parsed_content),
                  stdout_ok)
      EXCEPT !.turn.snapshots = IF should_fetch_new_lyrics THEN @ ELSE << >> ]

\* mutant: a lookup that found nothing raises into the loop
LookupFailureRaises(block, song_changed, should_fetch_new_lyrics, r, info, stdout_ok) ==
    FinishBlock(block, song_changed, should_fetch_new_lyrics, r, info,
                BlockSnapshot(block.title, block.artist, block.status, block.position_ms,
                              info.lyrics_parsed_content),
                stdout_ok /\ ~(r.looked_up /\ info.lyrics_parsed_content = << >>))

\* lines 350-371: resolve the lyrics if asked to, then show
ResolveAndShow(block, song_changed, should_fetch_new_lyrics, r, info, stdout_ok) ==
    FinishBlock(block, song_changed, should_fetch_new_lyrics, r, info,
                BlockSnapshot(block.title, block.artist, block.status, block.position_ms,
                              info.lyrics_parsed_content),
                stdout_ok)

\* lines 342-350: decide whether the lyrics are resolved
Reconcile(block, info, song_changed, stdout_ok, api) ==
    IF ShouldFetchNewLyrics(block.title, song_changed, info, lyrics_files, now)
    THEN ResolveAndShow(block, song_changed, TRUE,
                        ResolveLyrics(block.title, block.artist, info, lyrics_files, api),
                        Resolved(block, info,
                                 ResolveLyrics(block.title, block.artist, info, lyrics_files, api),
                                 now),
                        stdout_ok)
    ELSE ResolveAndShow(block, song_changed, FALSE,
                        [ files |-> lyrics_files, looked_up |-> FALSE ], info, stdout_ok)

\* lines 333-340: the status is cached and the track compared
CompareTrack(block, info, stdout_ok, api) ==
    Reconcile(block, info,
              SongChanged(block.track_id, block.title, block.artist,
                          last_processed_playerctl_track_id_from_event, info),
              stdout_ok, api)

\* lines 318-405, for an end marker inside a block.  stdout_ok: print() works.
EndOfBlock(stdout_ok, api) ==
    CompareTrack(BlockFields(active_metadata_dict),
                 [ cached_song_info EXCEPT
                     !.status = BlockFields(active_metadata_dict).status ],
                 stdout_ok, api)

\* the state as it is, for a step that changes nothing but `turn`
Unchanged(branch) ==
    [ raised  |-> FALSE,
      info    |-> cached_song_info,
      last    |-> last_processed_playerctl_track_id_from_event,
      process |-> playerctl_process,
      parsing |-> is_parsing_metadata_block,
      dict    |-> active_metadata_dict,
      cache_file |-> song_info_cache_file,
      files   |-> lyrics_files,
      turn    |-> [ Idle(branch) EXCEPT !.lines = 1 ] ]

\* lines 416-431: a line outside any block
StandaloneLine(line, stdout_ok) ==
    IF IsStopLine(Lower(line)) /\ HasActiveSession(cached_song_info)
    THEN IF stdout_ok
         THEN [ Unchanged("stop_line") EXCEPT
                  !.info = ClearSongInfo(cached_song_info),
                  !.cache_file = save_song_info_cache(ClearSongInfo(cached_song_info)),
                  !.last = None,
                  !.turn = [ Idle("stop_line") EXCEPT
                               !.lines = 1, !.saves = 1,
                               !.snapshots = << Snapshot(<< "No Media" >>,
                                                  << "Player stopped or not running" >>,
                                                  << "offline" >>) >> ] ]
         ELSE [ Unchanged("stop_line") EXCEPT !.raised = TRUE ]
    ELSE Unchanged("standalone")

\* mutant: a line inside a block is first matched against the stop phrases
StopPhraseMatchedInBlock(line) ==
    LET colon == FirstColon(line, 1)
        key   == Strip(SubSeq(line, 1, colon - 1))
        value == Strip(SubSeq(line, colon + 1, Len(line)))
    IN  IF IsStopLine(Lower(line)) THEN StandaloneLine(line, TRUE)
        ELSE IF colon # 0
        THEN [ Unchanged("pair") EXCEPT !.dict = DictPut(active_metadata_dict, key, value) ]
        ELSE Unchanged("malformed")

\* mutant: a line without a colon ends the block and drops what was read
MalformedLineAbandonsBlock(line) ==
    LET colon == FirstColon(line, 1)
        key   == Strip(SubSeq(line, 1, colon - 1))
        value == Strip(SubSeq(line, colon + 1, Len(line)))
    IN  IF colon # 0
        THEN [ Unchanged("pair") EXCEPT !.dict = DictPut(active_metadata_dict, key, value) ]
        ELSE [ Unchanged("malformed") EXCEPT !.dict = EmptyDict, !.parsing = FALSE ]

\* lines 407-414: a line inside a block
LineInBlock(line) ==
    LET colon == FirstColon(line, 1)
        key   == Strip(SubSeq(line, 1, colon - 1))
        value == Strip(SubSeq(line, colon + 1, Len(line)))
    IN  IF colon # 0
        THEN [ Unchanged("pair") EXCEPT !.dict = DictPut(active_metadata_dict, key, value) ]
        ELSE Unchanged("malformed")

\* mutant: end of file is taken for a line and the subprocess stays tracked
EndOfStreamAsLine == Unchanged("eof")

\* mutant: the end of the stream also forgets the session
EndOfStreamClears ==
    [ Unchanged("eof") EXCEPT !.process = "None", !.parsing = FALSE,
                              !.dict = EmptyDict, !.turn.lines = 0, !.turn.waits = 1,
                              !.info = DefaultSongInfo, !.last = None ]

\* lines 303-308: readline() returns b'', the subprocess has closed its stdout
EndOfStream ==
    [ Unchanged("eof") EXCEPT !.process = "None", !.parsing = FALSE,
                              !.dict = EmptyDict, !.turn.lines = 0, !.turn.waits = 1 ]

\* lines 298-431: what readline() returning `raw` leads to, up to an exception
LineOutcome(raw, api, stdout_ok) ==
    LET line == Strip(raw)
    IN  IF raw = LimitOverrun
        THEN [ Unchanged("read_error") EXCEPT !.raised = TRUE, !.turn.lines = 0 ]
        ELSE IF raw = << >>
        THEN EndOfStream
        ELSE IF \E i \in 1..Len(raw) : raw[i] = UndecodableByte
        THEN [ Unchanged("decode_error") EXCEPT !.raised = TRUE ]
        ELSE IF line = << >> THEN Unchanged("blank")
        ELSE IF line = PLAYERCTL_DATA_BEGIN_MARKER
        THEN [ Unchanged("begin") EXCEPT !.dict = EmptyDict, !.parsing = TRUE ]
        ELSE IF line = PLAYERCTL_DATA_END_MARKER
        THEN IF is_parsing_metadata_block THEN EndOfBlock(stdout_ok, api)
             ELSE Unchanged("end_without_block")
        ELSE IF is_parsing_metadata_block THEN LineInBlock(line)
        ELSE StandaloneLine(line, stdout_ok)

\* mutant: the handler forgets the subprocess without killing it
HandlerWithoutKill(o, fault) ==
    IF fault # "none"
    THEN [ o EXCEPT !.raised = TRUE, !.turn.error = "escaped" ]
    ELSE [ o EXCEPT !.raised = FALSE, !.process = "None",
                    !.turn.slept = PLAYERCTL_RESTART_DELAY_SECONDS,
                    !.turn.error = "handled" ]

\* lines 492-504: the handler of the loop's `except Exception`, after outcome o.
\* fault "logfile": open(log_file, "a") raises; fault "stdout": print() raises.
\* In both cases the exception leaves the handler and the loop.
GeneralHandler(o, fault) ==
    IF fault # "none"
    THEN [ o EXCEPT !.raised = TRUE, !.turn.error = "escaped" ]
    ELSE [ o EXCEPT
             !.raised = FALSE,
             !.process = "None",
             !.turn.snapshots = o.turn.snapshots
                 \o << Snapshot(<< "Script Error" >>, << "str(e)" >>, << "error" >>) >>,
             !.turn.kills = IF o.process = "running" THEN 1 ELSE 0,
             !.turn.slept = PLAYERCTL_RESTART_DELAY_SECONDS,
             !.turn.error = "handled" ]

----------------------------------------------------------------------------
(* lyrics.py: the read timeout and its status check (lines 433-490) *)

\* mutant: a status check that prints anything at all is taken as stopped
AnyOutputMeansStopped(probe) ==
    probe.returncode # 0 \/ probe.stdout # << >>

\* mutant: the status check looks at the output only, not at the return code
ProbeIgnoresReturnCode(probe) ==
    Lower(Strip(probe.stdout)) = << "stopped" >>

(* How `playerctl status` ends: [how |-> "spawn_error"] (create_subprocess_exec *)
(* raises), [how |-> "timeout"] (communicate() exceeds its wait) or            *)
(* [how |-> "exit", returncode, stdout].                                       *)
ProbeSaysStopped(probe) ==
    LET actual_player_status_stdout == Lower(Strip(probe.stdout))
    IN  \/ probe.returncode # 0
        \/ Contains(actual_player_status_stdout,
                    << "no", " ", "player", " ", "is", " ", "running" >>)
        \/ Contains(actual_player_status_stdout, << "no", " ", "players", " ", "found" >>)
        \/ actual_player_status_stdout = << "stopped" >>

\* mutant: the snapshot is printed and the session kept as it is
ShowWithoutClearing(branch, snapshot) ==
    [ Unchanged(branch) EXCEPT
        !.turn = [ Idle(branch) EXCEPT !.probes = 1, !.snapshots = << snapshot >> ] ]

\* lines 463-472 and 480-484: clear the session, with the snapshot given
ForceStopped(branch, snapshot) ==
    [ Unchanged(branch) EXCEPT
        !.info = ClearSongInfo(cached_song_info),
        !.cache_file = save_song_info_cache(ClearSongInfo(cached_song_info)),
        !.last = None,
        !.turn = [ Idle(branch) EXCEPT !.probes = 1, !.saves = 1,
                                       !.snapshots = << snapshot >> ] ]

\* a probe that changes nothing
ProbeOnly(branch) == [ Unchanged(branch) EXCEPT !.turn.lines = 0, !.turn.probes = 1 ]

\* an exception that leaves the `except asyncio.TimeoutError` clause of the loop
Escapes(o) == [ o EXCEPT !.raised = TRUE, !.turn.error = "escaped" ]

\* mutant: an exception in the status check is taken for a player that is gone
StatusCheckFailedClears(stdout_ok) ==
    ForceStopped("probe_error",
                 Snapshot(<< "Status Check Error" >>, << "Error checking player status" >>,
                          << "error" >>))

\* lines 485-488: except Exception as e_status_check
StatusCheckFailed(stdout_ok) ==
    IF stdout_ok
    THEN [ ProbeOnly("probe_error") EXCEPT
             !.turn.snapshots = << Snapshot(<< "Status Check Error" >>,
                                    << "Error checking player status" >>, << "error" >>) >> ]
    ELSE Escapes(ProbeOnly("probe_error"))

\* lines 433-490.  `raised` in the result: an exception left the loop.
TimeoutOutcome(probe, stdout_ok) ==
    LET current_cached_status == cached_song_info.status
        active == current_cached_status # << "stopped" >> \/ Truthy(cached_song_info.title)
    IN  IF probe.how = "spawn_error"
             \/ (probe.how = "exit" /\ \E i \in 1..Len(probe.stdout) : probe.stdout[i] = UndecodableByte)
        THEN StatusCheckFailed(stdout_ok)
        ELSE IF probe.how = "timeout"
        THEN IF ~active THEN ProbeOnly("probe_timeout_known")
             ELSE IF stdout_ok
             THEN ForceStopped("probe_timeout",
                      Snapshot(<< "No Media" >>, << "Player unresponsive (status check timeout)" >>,
                               << "error" >>))
             ELSE Escapes(ProbeOnly("probe_timeout"))
        ELSE IF ProbeSaysStopped(probe)
        THEN IF ~active THEN ProbeOnly("probe_stopped_known")
             ELSE IF stdout_ok
             THEN ForceStopped("probe_stopped",
                      Snapshot(<< "No Media" >>, << "Player stopped or not responding" >>,
                               << "offline" >>))
             ELSE Escapes(ProbeOnly("probe_stopped"))
        ELSE ProbeOnly("probe_active")

----------------------------------------------------------------------------
(* player.py: configuration and display (lines 40-56, 241-337) *)

ART_UPDATE_COOLDOWN_SECONDS == 3

ICON_PLAY  == "\\uf04c"
ICON_PAUSE == "\\uf04b"
ICON_STOP  == "\\uf04d"
ICON_MUSIC == "\\uf001"

\* PLAYERCTL_DATA_BEGIN_MARKER and PLAYERCTL_DATA_END_MARKER of player.py
PLAYER_DATA_BEGIN_MARKER == << "PLAYER_CTL_SCRIPT_BEGIN_METADATA_BLOCK_V1_UNIQUE" >>
PLAYER_DATA_END_MARKER == << "PLAYER_CTL_SCRIPT_END_METADATA_BLOCK_V1_UNIQUE" >>

\* ' '.join(s.split())
NormalizeSpaces(s) == Strip(CollapseWhitespace(s))

\* an icon constant followed by text: the icons end in three spaces
Icon(icon) == << icon, " ", " ", " " >>

DigitChar(n) ==
    CASE n = 0 -> "0" [] n = 1 -> "1" [] n = 2 -> "2" [] n = 3 -> "3" [] n = 4 -> "4"
      [] n = 5 -> "5" [] n = 6 -> "6" [] n = 7 -> "7" [] n = 8 -> "8" [] n = 9 -> "9"

\* str(n) for n >= 0
RECURSIVE Decimal(_)
Decimal(n) == IF n < 10 THEN << DigitChar(n) >> ELSE Decimal(n \div 10) \o << DigitChar(n % 10) >>

\* time.strftime('%M:%S', time.gmtime(us // 1000000)) if us > 0 else "00:00"
MinutesSeconds(us) ==
    LET sec == IF us > 0 THEN us \div 1000000 ELSE 0
        mm  == (sec \div 60) % 60
        ss  == sec % 60
    IN  << DigitChar(mm \div 10), DigitChar(mm % 10), ":", DigitChar(ss \div 10), DigitChar(ss % 10) >>

\* int(s), 0 on ValueError (lines 258-261)
IntOrZero(s) == IF IsIntLiteral(s) THEN IntOf(s) ELSE 0

(* float(volume_raw_str) for the spellings playerctl prints: digits, or     *)
(* digits "." digits.  Anything else is a ValueError here.                  *)
IsFloatLiteral(s) ==
    LET t   == Strip(s)
        dot == CHOOSE i \in 0..Len(t) : (i = 0 /\ \A j \in 1..Len(t) : t[j] # ".")
                                        \/ (i > 0 /\ t[i] = "." /\ \A j \in 1..(i - 1) : t[j] # ".")
        whole == IF dot = 0 THEN t ELSE SubSeq(t, 1, dot - 1)
        frac  == IF dot = 0 THEN << >> ELSE SubSeq(t, dot + 1, Len(t))
    IN  /\ whole \o frac # << >>
        /\ \A i \in 1..Len(whole) : whole[i] \in Digits
        /\ \A i \in 1..Len(frac) : frac[i] \in Digits

\* f"{volume_float * 100:.0f}%" for a volume with at most two decimals
VolumePercent(s) ==
    LET t   == Strip(s)
        dot == CHOOSE i \in 0..Len(t) : (i = 0 /\ \A j \in 1..Len(t) : t[j] # ".")
                                        \/ (i > 0 /\ t[i] = "." /\ \A j \in 1..(i - 1) : t[j] # ".")
        whole == IF dot = 0 THEN t ELSE SubSeq(t, 1, dot - 1)
        frac  == IF dot = 0 THEN << >> ELSE SubSeq(t, dot + 1, Len(t))
    IN  Decimal(DecimalValue(whole, 0) * 100
                + DecimalValue(SubSeq(frac \o << "0", "0" >>, 1, 2), 0)) \o << "%" >>

\* lines 247-337 of _parse_and_display_metadata: the snapshot it prints.
\* art_exists: os.path.exists(CURRENT_ART_SYMLINK_PATH)
PlayerSnapshot(metadata_dict, art_exists) ==
    LET artist == Strip(DictGet(metadata_dict, << "artist" >>, << >>))
        title  == Strip(DictGet(metadata_dict, << "title" >>, << >>))
        album  == Strip(DictGet(metadata_dict, << "album" >>, << >>))
        status == Lower(DictGet(metadata_dict, << "status" >>, << "stopped" >>))
        player_name == Strip(DictGet(metadata_dict, << "player" >>, << >>))
        art_url_str == DictGet(metadata_dict, << "artUrl" >>, << >>)
        position_us == IntOrZero(DictGet(metadata_dict, << "position" >>, << "0" >>))
        length_us   == IntOrZero(DictGet(metadata_dict, << "length" >>, << "0" >>))
        volume_raw_str == DictGet(metadata_dict, << "volume" >>, << "0", ".", "0" >>)
        volume_percent_str == IF IsFloatLiteral(volume_raw_str)
                              THEN VolumePercent(volume_raw_str) ELSE << "N/A" >>
        display_text_main_content ==
            IF title # << >> /\ artist # << >> THEN title \o << " ", "-", " " >> \o artist
            ELSE IF title # << >> THEN title
            ELSE IF player_name # << >> /\ status # << "stopped" >>
                 THEN Icon(ICON_MUSIC) \o player_name
            ELSE Icon(ICON_MUSIC) \o << "No", " ", "Title" >>
        current_status_icon ==
            IF status = << "playing" >> THEN ICON_PLAY
            ELSE IF status = << "paused" >> THEN ICON_PAUSE ELSE ICON_STOP
        nothing == artist = << >> /\ title = << >> /\ album = << >>
        final_text ==
            NormalizeSpaces(Icon(current_status_icon) \o
                (IF status = << "stopped" >> /\ nothing THEN << "No", " ", "Media" >>
                 ELSE display_text_main_content))
        current_css_class ==
            IF player_name = << >> /\ status = << "stopped" >> /\ nothing THEN << "offline" >>
            ELSE IF status = << "stopped" >> /\ nothing THEN << "empty" >>
            ELSE IF status \in { << "playing" >>, << "paused" >> } THEN status
            ELSE << "stopped" >>
        na(x) == IF x # << >> THEN x ELSE << "N/A" >>
        final_tooltip ==
            << << "Player: " >> \o na(player_name), << "Status: " >> \o na(Capitalize(status)) >>
            \o (IF title # << >> THEN << << "Song: " >> \o title >> ELSE << >>)
            \o (IF artist # << >> THEN << << "Artist: " >> \o artist >> ELSE << >>)
            \o (IF album # << >> THEN << << "Album: " >> \o album >> ELSE << >>)
            \o (IF status \in { << "playing" >>, << "paused" >> }
                THEN (IF length_us > 0
                      THEN << << "Progress: " >> \o MinutesSeconds(position_us)
                                 \o << " ", "/", " " >> \o MinutesSeconds(length_us) >>
                      ELSE << >>)
                     \o (IF volume_percent_str # << "N/A" >>
                         THEN << << "Volume: " >> \o volume_percent_str >> ELSE << >>)
                ELSE IF status = << "stopped" >> /\ (artist # << >> \/ title # << >>)
                        /\ length_us > 0
                     THEN << << "Length: " >> \o MinutesSeconds(length_us) >>
                ELSE << >>)
            \o << IF art_exists THEN << "Cover Art: Available" >>
                  ELSE IF art_url_str # << >> THEN << "Cover Art: URL provided (processing)" >>
                  ELSE << "Cover Art: N/A" >> >>
    IN  Snapshot(final_text, final_tooltip, current_css_class)

----------------------------------------------------------------------------
(* player.py: one iteration of main_loop_async (lines 401-556) *)

(* The file at LAST_TRACK_ID_CACHE_PATH, written as {"track_id": id}.      *)
TrackIdDocument(id) == json_dump([ track_id |-> id ])

\* lines 385-393: [raised, value]; a JSON text that is no object has no .get()
LoadLastTrackId(file) ==
    IF ~file.exists THEN [ raised |-> FALSE, value |-> None ]
    ELSE IF file.json = "invalid" THEN [ raised |-> FALSE, value |-> None ]
    ELSE IF file.json = "object"
    THEN [ raised |-> FALSE,
           value |-> IF "track_id" \in DOMAIN file.value
                     THEN PythonValue(file.value.track_id) ELSE None ]
    ELSE [ raised |-> TRUE, value |-> None ]

\* `art_tasks` where the tasks are not followed
NotFollowed == << [ at |-> "not followed" ] >>

\* the tasks are followed
ArtFollowed == IF art_tasks = << >> THEN TRUE ELSE art_tasks[1].at # "not followed"

\* the module-level 0 of last_art_operation_timestamp on the clock of the
\* model, which reads 0 when the script is loaded: no operation within the
\* cooldown window
NeverOperated == 0 - ART_UPDATE_COOLDOWN_SECONDS

\* mutant: the caller runs the coroutine itself up to its download
ArtTaskAwaited(title, artist, art_url_param, current_mpris_track_id) ==
    [ title |-> title, artist |-> artist, art_url_param |-> art_url_param,
      current_mpris_track_id |-> current_mpris_track_id,
      at |-> "fetching", current_time |-> now,
      was_url |-> last_known_art_url, was_id |-> last_processed_mpris_track_id_global ]

(* asyncio.create_task(process_album_art(title, artist, art_url, id)): the   *)
(* task as created.  `at` is where the task stands: "created" or "fetching". *)
(* was_url and was_id are last_known_art_url and the last processed track    *)
(* id as the caller found them (observation only).                           *)
ArtTask(title, artist, art_url_param, current_mpris_track_id) ==
    [ title |-> title, artist |-> artist, art_url_param |-> art_url_param,
      current_mpris_track_id |-> current_mpris_track_id,
      at |-> "created", current_time |-> 0,
      was_url |-> last_known_art_url, was_id |-> last_processed_mpris_track_id_global ]

\* the state as it is, for a step that changes nothing but `turn`.  `raised`
\* is "no", "BrokenPipeError" or "Exception".  `spawn` are the tasks created.
PlayerUnchanged(branch) ==
    [ raised  |-> "no",
      spawn   |-> << >>,
      status  |-> current_player_status_cache,
      last    |-> last_processed_mpris_track_id_global,
      art_url |-> last_known_art_url,
      id_file |-> last_track_id_file,
      process |-> playerctl_process,
      parsing |-> is_parsing_metadata_block,
      dict    |-> active_metadata_dict,
      turn    |-> [ Idle(branch) EXCEPT !.lines = 1 ] ]

\* print() fails with the pipe to waybar closed
BrokenPipe(o) == [ o EXCEPT !.raised = "BrokenPipeError" ]

(* lines 410-418, 469-476, 508-515 and 522-529: print the snapshot, set the *)
(* status, ask for the cover art to be cleared, rewrite the track id        *)
(* document if there is one, forget the track id.                           *)
GoOffline(o, snapshot, status, stdout_ok) ==
    IF ~stdout_ok THEN BrokenPipe(o)
    ELSE [ o EXCEPT
             !.status = status,
             !.last = None,
             !.id_file = IF o.id_file.exists THEN TrackIdDocument(None) ELSE o.id_file,
             !.spawn = o.spawn \o << ArtTask(None, None, None, o.last) >>,
             !.turn.snapshots = o.turn.snapshots \o << snapshot >>,
             !.turn.tasks = o.turn.tasks + 1,
             !.turn.saves = o.turn.saves + (IF o.id_file.exists THEN 1 ELSE 0) ]

\* lines 339-365 of _parse_and_display_metadata and lines 451-454, after the print
PlayerEndOfBlock(stdout_ok, art_exists) ==
    LET title == Strip(DictGet(active_metadata_dict, << "title" >>, << >>))
        artist == Strip(DictGet(active_metadata_dict, << "artist" >>, << >>))
        status == Lower(DictGet(active_metadata_dict, << "status" >>, << "stopped" >>))
        mpris_track_id == Strip(DictGet(active_metadata_dict, << "trackid" >>, << >>))
        art_url_str == DictGet(active_metadata_dict, << "artUrl" >>, << >>)
        art_url == IF art_url_str # << >> THEN art_url_str ELSE None
        current_script_last_processed_mpris_id == last_processed_mpris_track_id_global
        should_launch_art_task ==
            IF mpris_track_id # << >>
            THEN \/ mpris_track_id # current_script_last_processed_mpris_id
                 \/ (art_url # None /\ art_url # last_known_art_url)
            ELSE Truthy(current_script_last_processed_mpris_id)
        new_global_mpris_id == IF mpris_track_id # << >> THEN mpris_track_id ELSE None
        written == new_global_mpris_id # current_script_last_processed_mpris_id
        entered == [ PlayerUnchanged("block") EXCEPT
                       !.parsing = FALSE,
                       !.status = status,
                       !.turn.yielded = TRUE,
                       !.turn.block = [ title |-> title, artist |-> artist,
                                        track_id |-> mpris_track_id, status |-> status,
                                        position_ms |-> 0 ] ]
    IN  IF ~stdout_ok THEN BrokenPipe(entered)
        ELSE [ entered EXCEPT
                 !.art_url = IF should_launch_art_task THEN art_url ELSE last_known_art_url,
                 !.id_file = IF written THEN TrackIdDocument(new_global_mpris_id)
                             ELSE last_track_id_file,
                 !.last = new_global_mpris_id,
                 !.dict = EmptyDict,
                 !.turn.snapshots = << PlayerSnapshot(active_metadata_dict, art_exists) >>,
                 !.spawn = IF should_launch_art_task
                           THEN << ArtTask(title, artist, art_url, mpris_track_id) >>
                           ELSE << >>,
                 !.turn.tasks = IF should_launch_art_task THEN 1 ELSE 0,
                 !.turn.saves = IF written THEN 1 ELSE 0,
                 !.turn.song_changed = written ]

\* the phrases of line 467
IsPlayerStopLine(lower_line) ==
    \/ Contains(lower_line, << "no", " ", "player", " ", "is", " ", "running" >>)
    \/ Contains(lower_line, << "no", " ", "players", " ", "found" >>)

\* lines 464-477: a line outside any block
PlayerStandaloneLine(line, stdout_ok) ==
    IF IsPlayerStopLine(Lower(line))
    THEN LET o == IF current_player_status_cache # << "offline" >>
                  THEN GoOffline(PlayerUnchanged("stop_line"),
                                 Snapshot(NormalizeSpaces(Icon(ICON_STOP) \o << "No", " ", "Player" >>),
                                          << "No player is running" >>, << "offline" >>),
                                 << "offline" >>, stdout_ok)
                  ELSE PlayerUnchanged("standalone")
         IN  IF o.raised # "no" THEN o
             ELSE [ o EXCEPT !.dict = EmptyDict, !.parsing = FALSE ]
    ELSE PlayerUnchanged("standalone")

\* lines 458-462: a line inside a block
PlayerLineInBlock(line) ==
    LET colon == FirstColon(line, 1)
        key   == Strip(SubSeq(line, 1, colon - 1))
        value == Strip(SubSeq(line, colon + 1, Len(line)))
    IN  IF colon # 0
        THEN [ PlayerUnchanged("pair") EXCEPT !.dict = DictPut(active_metadata_dict, key, value) ]
        ELSE PlayerUnchanged("malformed")

\* lines 430-479: what readline() returning `raw` leads to, up to an exception
PlayerLineOutcome(raw, stdout_ok, art_exists) ==
    LET line == Strip(raw)
    IN  IF raw = LimitOverrun
        THEN [ PlayerUnchanged("read_error") EXCEPT !.raised = "Exception", !.turn.lines = 0 ]
        ELSE IF raw = << >>
        THEN [ PlayerUnchanged("eof") EXCEPT !.process = "None", !.parsing = FALSE,
                                             !.dict = EmptyDict, !.turn.lines = 0,
                                             !.turn.waits = 1 ]
        ELSE IF \E i \in 1..Len(raw) : raw[i] = UndecodableByte
        THEN [ PlayerUnchanged("decode_error") EXCEPT !.raised = "Exception" ]
        ELSE IF line = << >> THEN PlayerUnchanged("blank")
        ELSE IF line = PLAYER_DATA_BEGIN_MARKER
        THEN [ PlayerUnchanged("begin") EXCEPT !.dict = EmptyDict, !.parsing = TRUE ]
        ELSE IF line = PLAYER_DATA_END_MARKER
        THEN IF is_parsing_metadata_block THEN PlayerEndOfBlock(stdout_ok, art_exists)
             ELSE PlayerUnchanged("end_without_block")
        ELSE IF is_parsing_metadata_block THEN PlayerLineInBlock(line)
        ELSE PlayerStandaloneLine(line, stdout_ok)

\* lines 481-536: the read timeout and its status check
PlayerTimeoutOutcome(probe, stdout_ok) ==
    LET quiet == [ PlayerUnchanged("probe_active") EXCEPT !.turn.lines = 0, !.turn.probes = 1 ]
        named(branch) == [ quiet EXCEPT !.turn.branch = branch ]
    IN  IF probe.how = "spawn_error"
             \/ (probe.how = "exit" /\ \E i \in 1..Len(probe.stdout) : probe.stdout[i] = UndecodableByte)
        THEN \* except Exception as e_status_check
             IF current_player_status_cache = << "error" >> THEN named("probe_error_known")
             ELSE IF ~stdout_ok THEN BrokenPipe(named("probe_error"))
             ELSE [ named("probe_error") EXCEPT
                      !.status = << "error" >>,
                      !.turn.snapshots =
                          << Snapshot(NormalizeSpaces(Icon(ICON_STOP) \o << "Status", " ", "Error" >>),
                                      << "Error checking player status" >>, << "error" >>) >> ]
        ELSE IF probe.how = "timeout"
        THEN IF current_player_status_cache = << "error" >> THEN named("probe_timeout_known")
             ELSE GoOffline(named("probe_timeout"),
                            Snapshot(NormalizeSpaces(Icon(ICON_STOP) \o << "No", " ", "Media" >>),
                                     << "Player unresponsive (status check timeout)" >>,
                                     << "error" >>),
                            << "error" >>, stdout_ok)
        ELSE IF ProbeSaysStopped(probe)
        THEN IF current_player_status_cache = << "offline" >> THEN named("probe_stopped_known")
             ELSE IF ~stdout_ok /\ current_player_status_cache = << "error" >>
             THEN \* the print of line 508 raises inside the try statement of the status
                  \* check: its handler (530-534) has nothing to print and the loop goes on
                  [ named("probe_print_error") EXCEPT !.turn.error = "handled" ]
             ELSE GoOffline(named("probe_stopped"),
                            Snapshot(NormalizeSpaces(Icon(ICON_STOP) \o << "No", " ", "Media" >>),
                                     << "Player stopped or not responding" >>, << "offline" >>),
                            << "offline" >>, stdout_ok)
        ELSE quiet

(* lines 538-556: the handlers of the loop.  An exception raised inside a   *)
(* handler leaves the loop: `crashed`.  fault "logfile": open(log, "a")     *)
(* raises; fault "stdout": print() raises BrokenPipeError.                  *)
PlayerHandlers(o, fault) ==
    LET escaped == [ o EXCEPT !.turn.error = "escaped" ] @@ [ crashed |-> TRUE ]
    IN  IF o.raised = "no" THEN o @@ [ crashed |-> FALSE ]
        ELSE IF o.raised = "BrokenPipeError"
        THEN \* lines 538-544; the pipe stays closed
             IF o.status # << "error" >> THEN escaped
             ELSE [ o EXCEPT !.process = "None", !.parsing = FALSE, !.dict = EmptyDict,
                             !.turn.waits = IF o.process = "running" THEN 1 ELSE 0,
                             !.turn.error = "handled" ] @@ [ crashed |-> FALSE ]
        ELSE \* lines 545-556
             IF fault = "logfile" THEN escaped
             ELSE IF o.status # << "error" >> /\ fault = "stdout" THEN escaped
             ELSE [ o EXCEPT
                      !.status = << "error" >>,
                      !.process = "None",
                      !.turn.snapshots =
                          IF o.status # << "error" >>
                          THEN o.turn.snapshots
                               \o << Snapshot(NormalizeSpaces(Icon(ICON_STOP) \o << "Script", " ", "Error" >>),
                                              << "str(e)" >>, << "error" >>) >>
                          ELSE o.turn.snapshots,
                      !.turn.kills = IF o.process = "running" THEN 1 ELSE 0,
                      !.turn.slept = PLAYERCTL_RESTART_DELAY_SECONDS,
                      !.turn.error = "handled" ] @@ [ crashed |-> FALSE ]

----------------------------------------------------------------------------
(* player.py: _sanitize_filename and process_album_art (lines 99-238) *)

\* characters _sanitize_filename replaces: [\x00-\x1f<>:"/\\|?*]
ControlChars == { "\n", "\t", "U+0001" }
PlayerForbiddenChars == ControlChars \cup { "<", ">", ":", "\"", "/", "\\", "|", "?", "*" }

\* re.sub(r'[\x00-\x1f<>:"/\\|?*]', '_', name_str)
ReplaceForbidden(s) ==
    [ i \in 1..Len(s) |-> IF s[i] \in PlayerForbiddenChars THEN "_" ELSE s[i] ]

\* re.sub('_+', '_', sanitized)
CollapseUnderscores(s) ==
    LET kept == SelectSeq([ i \in 1..Len(s) |-> i ],
                          LAMBDA i : s[i] # "_" \/ (IF i = 1 THEN TRUE ELSE s[i - 1] # "_"))
    IN  [ k \in 1..Len(kept) |-> s[kept[k]] ]

\* sanitized.strip(' ._')
RECURSIVE StripFill(_)
StripFill(s) ==
    IF s = << >> THEN s
    ELSE IF Head(s) \in { " ", ".", "_" } THEN StripFill(Tail(s))
    ELSE IF s[Len(s)] \in { " ", ".", "_" } THEN StripFill(SubSeq(s, 1, Len(s) - 1))
    ELSE s

\* hashlib.sha1(name_str.encode('utf-8')).hexdigest()[:16] : one symbol per digest
Sha1Prefix16(s) == << "sha1/16" >> \o s

\* _sanitize_filename(name_str)
PlayerSanitizeFilename(name_str) ==
    IF ~Truthy(name_str) THEN << >>
    ELSE LET sanitized    == StripFill(CollapseUnderscores(ReplaceForbidden(name_str)))
             original_len == Len(sanitized)
             truncated    == TruncateToBytes(sanitized, byte_limit)
         IN  IF truncated = << >> /\ original_len > 0 THEN Sha1Prefix16(name_str)
             ELSE IF truncated # << >> THEN truncated
             ELSE << "_empty_metadata_" >>

\* lines 125-130: the name of the track's file under ALBUM_COVERS_DIR_PATH
ArtFileName(title, artist) ==
    PlayerSanitizeFilename(
        IF Truthy(title) /\ Truthy(artist) THEN title \o << " ", "-", " " >> \o artist
        ELSE IF Truthy(title) THEN title
        ELSE IF Truthy(artist) THEN artist
        ELSE << >>)

\* os.path.exists(specific_track_art_path)
ArtFileExists(files, name) == name \in DOMAIN files

\* os.path.exists(CURRENT_ART_SYMLINK_PATH): the link is there and so is its target
CurrentArtExists(files, link) == link # None /\ link \in DOMAIN files

\* the two schemes process_album_art knows
IsHttp(url) == Len(url) >= 1 /\ url[1] = "http"
IsFileUrl(url) == Len(url) >= 3 /\ SubSeq(url, 1, 3) = << "file", ":", "//" >>

\* mutant: the link is made whether or not the operation succeeded
FinishArtAlwaysLinks(task, name, fetch_success, files, did) ==
    [ at |-> "done", files |-> files,
      current |-> IF ArtFileExists(files, name) THEN name ELSE None,
      stamp |-> task.current_time,
      art |-> [ did |-> did, task |-> task, name |-> name, fetch_success |-> fetch_success ] ]

(* lines 216-238: remove the link, make it again when the operation          *)
(* succeeded and the file is there and not empty, record the time.  A        *)
(* file is "image" or "empty" (of size 0).                                   *)
FinishArt(task, name, fetch_success, files, did) ==
    [ at |-> "done", files |-> files,
      current |-> IF fetch_success /\ ArtFileExists(files, name) /\ files[name] # "empty"
                  THEN name ELSE None,
      stamp |-> task.current_time,
      art |-> [ did |-> did, task |-> task, name |-> name, fetch_success |-> fetch_success ] ]

\* a return of process_album_art before line 168: the link is removed or kept
ReturnEarly(task, name, did, link) ==
    [ at |-> "done", files |-> art_files, current |-> link,
      stamp |-> last_art_operation_timestamp,
      art |-> [ did |-> did, task |-> task, name |-> name, fetch_success |-> FALSE ] ]

\* the file `name` removed from files, if it is there
WithoutFile(files, name) == [ f \in (DOMAIN files) \ { name } |-> files[f] ]

\* the file `name` written with `content`
WithFile(files, name, content) ==
    [ f \in (DOMAIN files) \cup { name } |-> IF f = name THEN content ELSE files[f] ]

\* mutant: the cooldown stops the task whether or not the file is there
CooldownAlwaysStops(task, name) ==
    (task.current_time - last_art_operation_timestamp) < ART_UPDATE_COOLDOWN_SECONDS

\* lines 157-159: the cooldown stops the task
CooldownStops(task, name) ==
    /\ (task.current_time - last_art_operation_timestamp) < ART_UPDATE_COOLDOWN_SECONDS
    /\ ~ArtFileExists(art_files, name)

\* lines 168-179: needs_fetch
NeedsFetch(task, name) ==
    IF ~ArtFileExists(art_files, name) THEN TRUE
    ELSE IF task.current_mpris_track_id # last_processed_mpris_track_id_global THEN FALSE
    ELSE task.art_url_param # last_known_art_url

(* lines 115-203: process_album_art from its start to its first await or to  *)
(* its end.  task.current_time is the time of the start.  source_exists:     *)
(* the file a file:// URL names is there.                                    *)
process_album_art(task, source_exists) ==
    LET name == ArtFileName(task.title, task.artist)
        is_current_track_context ==
            task.current_mpris_track_id = last_processed_mpris_track_id_global
        symlink_is_correct_and_valid ==
            /\ CurrentArtExists(art_files, current_art)
            /\ ArtFileExists(art_files, name)
            /\ current_art = name
    IN  IF name = << >> \/ name = << "_empty_metadata_" >>
        THEN ReturnEarly(task, name, "no_metadata", None)
        ELSE IF /\ ArtFileExists(art_files, name)
                /\ task.art_url_param = last_known_art_url
                /\ is_current_track_context
                /\ symlink_is_correct_and_valid
        THEN ReturnEarly(task, name, "up_to_date", current_art)
        ELSE IF CooldownStops(task, name)
        THEN ReturnEarly(task, name, "cooldown", current_art)
        ELSE IF ~Truthy(task.art_url_param)
        THEN ReturnEarly(task, name, "no_url", None)
        ELSE IF ~NeedsFetch(task, name)
        THEN FinishArt(task, name, TRUE, art_files, "reused")
        ELSE IF IsHttp(task.art_url_param) \/ (IsFileUrl(task.art_url_param) /\ source_exists)
        THEN \* await asyncio.to_thread(...)
             [ at |-> "fetching", files |-> art_files, current |-> current_art,
               stamp |-> last_art_operation_timestamp,
               art |-> [ did |-> "fetch_started", task |-> task, name |-> name,
                         fetch_success |-> FALSE ] ]
        ELSE \* lines 200-208: a scheme that is not known, or no file to copy
             FinishArt(task, name, FALSE, WithoutFile(art_files, name), "fetch_failed")

(* lines 186-238: process_album_art from the end of its await.  result:      *)
(* "image" (the download or the copy gave a file), "empty" (it gave a file   *)
(* of size 0) or "error" (an exception, the HTTP status included).           *)
process_album_art_resumed(task, result) ==
    LET name == ArtFileName(task.title, task.artist)
    IN  IF result = "error"
        THEN FinishArt(task, name, FALSE, WithoutFile(art_files, name), "fetch_failed")
        ELSE FinishArt(task, name, TRUE, WithFile(art_files, name, result), "fetched")

----------------------------------------------------------------------------
(* The inputs the model draws from *)

MaxEpochs == 1

\* the values time.time() takes: the start, and around each expiry of the freshness window
ClockValues ==
    { 0 } \cup { k * CACHE_EXPIRY_SECONDS + j : k \in 1..MaxEpochs, j \in { 0, 1 } }

KeyValueLine(key, value) == << key, ":" >> \o value \o << "\n" >>

BeginLine == PLAYERCTL_DATA_BEGIN_MARKER \o << "\n" >>
EndLine == PLAYERCTL_DATA_END_MARKER \o << "\n" >>

StopLine == << "No", " ", "players", " ", "found", "\n" >>

\* what readline() returns in the specification Spec: b'' is end of file
ReactorLines ==
    { BeginLine, EndLine, << "\n" >>, << >>, << UndecodableByte, "\n" >>, LimitOverrun,
      StopLine, << "hello", "\n" >>,
      KeyValueLine("title", << "a" >>), KeyValueLine("status", << "Playing" >>),
      KeyValueLine("track_id", << "t1" >>) }

\* what readline() returns in the specification SpecTracks
\* what readline() returns in player.py, in the specification Spec
PlayerLines ==
    { PLAYER_DATA_BEGIN_MARKER \o << "\n" >>, PLAYER_DATA_END_MARKER \o << "\n" >>,
      << "\n" >>, << >>, << UndecodableByte, "\n" >>, LimitOverrun,
      StopLine, << "hello", "\n" >>,
      KeyValueLine("title", << "a" >>), KeyValueLine("status", << "Playing" >>),
      KeyValueLine("trackid", << "t1" >>), KeyValueLine("artUrl", << "u1" >>) }

TrackLines ==
    { BeginLine, EndLine,
      KeyValueLine("title", << "a" >>), KeyValueLine("title", << "b" >>),
      KeyValueLine("track_id", << "t1" >>), KeyValueLine("track_id", << "t2" >>) }

\* the ways the lookup fails
LookupFailures == { "error", "no_results", "no_mid", "empty_payload" }

ApiAnswers == LookupFailures \cup { "lyrics" }

Faults == { "none", "stdout", "logfile" }

LaunchResults == { "ok", "not_found", "spawn_error" }

Probes ==
    { [ how |-> "spawn_error", returncode |-> 0, stdout |-> << >> ],
      [ how |-> "timeout", returncode |-> 0, stdout |-> << >> ],
      [ how |-> "exit", returncode |-> 1, stdout |-> << >> ],
      [ how |-> "exit", returncode |-> 0, stdout |-> << "Playing", "\n" >> ],
      [ how |-> "exit", returncode |-> 0, stdout |-> << "Stopped", "\n" >> ],
      [ how |-> "exit", returncode |-> 0, stdout |-> << "No", " ", "players", " ", "found", "\n" >> ],
      [ how |-> "exit", returncode |-> 0, stdout |-> << UndecodableByte >> ] }

InitialCacheFiles ==
    { NoFile,
      [ exists |-> TRUE, json |-> "invalid", value |-> << >> ],
      [ exists |-> TRUE, json |-> "array", value |-> << >> ] }

----------------------------------------------------------------------------
(* lyrics.py: the script *)

\* `status_checks` where the status checks are not counted
NotCounted == 0 - 1

(* `status_checks` after the step recorded in t.  A status check that was   *)
(* started and whose communicate() returned has exited; one whose           *)
(* communicate() was given up at the timeout (lyrics.py 444-447 and 478,    *)
(* player.py 489 and 519) is left as it is: no kill(), no terminate().      *)
StatusChecks(t) ==
    IF status_checks = NotCounted THEN status_checks
    ELSE IF t.probe.how = "timeout" THEN status_checks + 1
    ELSE status_checks

\* `received` where the lines of a block are not kept
NotKept == << << "<not kept>" >> >>

\* `received` after the step recorded in t: the key:value lines of the block
\* that is open or was handed over by this step, read from this subprocess
Received(t) ==
    IF received = NotKept THEN received
    ELSE IF t.branch = "begin" \/ t.started > 0 THEN << >>
    ELSE IF t.branch = "pair" THEN Append(received, t.line)
    ELSE IF turn.branch = "block" THEN << >>
    ELSE received

\* Assign an outcome o of a step to the variables.  When an exception leaves
\* listen_to_playerctl_and_update_waybar the process ends (lines 521-537) and
\* its globals with it; the files stay.
Apply(o) ==
    /\ cached_song_info' = IF o.raised THEN DefaultSongInfo ELSE o.info
    /\ last_processed_playerctl_track_id_from_event' = IF o.raised THEN None ELSE o.last
    /\ playerctl_process' = IF o.raised THEN "None" ELSE o.process
    /\ is_parsing_metadata_block' = IF o.raised THEN FALSE ELSE o.parsing
    /\ active_metadata_dict' = IF o.raised THEN EmptyDict ELSE o.dict
    /\ song_info_cache_file' = o.cache_file
    /\ lyrics_files' = o.files
    /\ turn' = o.turn
    /\ pc' = IF o.raised THEN "crashed" ELSE "loop"
    /\ alive' = IF o.raised THEN 0
                ELSE alive + o.turn.started - o.turn.kills - o.turn.waits
    /\ received' = Received(o.turn)
    /\ status_checks' = StatusChecks(o.turn)
    /\ UNCHANGED << script, player_state >>

\* the outcome o with the input of the step recorded in its `turn`
Observed(o, raw, probe) ==
    [ o EXCEPT !.turn.line = raw, !.turn.probe = probe,
               !.turn.repeats = IF \/ (raw # None /\ raw = turn.line)
                                    \/ (probe # NoProbe /\ probe = turn.probe)
                                 THEN turn.branch ELSE "no" ]

\* lines 250-272: listen_to_playerctl_and_update_waybar up to the loop
Start(launch, fault) ==
    /\ script = "lyrics"
    /\ pc = "start"
    /\ UNCHANGED << script, player_state, received, status_checks >>
    /\ fault \in { "none", "stdout" }
    /\ fault = "stdout" => launch = "not_found"
    /\ LET loaded == load_song_info_cache(song_info_cache_file)
       IN  IF launch = "not_found"
           THEN /\ pc' = IF fault = "stdout" THEN "crashed" ELSE "returned"
                /\ turn' = [ Idle("start") EXCEPT
                               !.launches = 1, !.launch = launch,
                               !.error = IF fault = "stdout" THEN "escaped" ELSE "none",
                               !.snapshots = IF fault = "stdout" THEN << >>
                                             ELSE << Snapshot(<< "Playerctl Not Found" >>,
                                                        << "Please install playerctl" >>,
                                                        << "error" >>) >> ]
                /\ UNCHANGED << cached_song_info, last_processed_playerctl_track_id_from_event,
                                playerctl_process, is_parsing_metadata_block,
                                active_metadata_dict, song_info_cache_file, lyrics_files, now,
                                alive >>
           ELSE IF launch = "spawn_error"
           THEN /\ pc' = "crashed"
                /\ turn' = [ Idle("start") EXCEPT !.launches = 1, !.launch = launch,
                                                  !.error = "escaped" ]
                /\ UNCHANGED << cached_song_info, last_processed_playerctl_track_id_from_event,
                                playerctl_process, is_parsing_metadata_block,
                                active_metadata_dict, song_info_cache_file, lyrics_files, now,
                                alive >>
           ELSE /\ playerctl_process' = IF loaded.raised THEN "None" ELSE "running"
                /\ pc' = IF loaded.raised THEN "crashed" ELSE "loop"
                /\ cached_song_info' = loaded.value
                /\ last_processed_playerctl_track_id_from_event' =
                       IF loaded.raised THEN None ELSE loaded.value.playerctl_track_id
                /\ song_info_cache_file' = loaded.file
                /\ active_metadata_dict' = EmptyDict
                /\ is_parsing_metadata_block' = FALSE
                /\ turn' = [ Idle("start") EXCEPT
                               !.launches = 1, !.started = 1, !.launch = launch,
                               !.error = IF loaded.raised THEN "escaped" ELSE "none" ]
                /\ alive' = IF loaded.raised THEN 0 ELSE alive + 1
                /\ UNCHANGED << lyrics_files, now >>

\* mutant: the supervisor starts the subprocess first and waits afterwards
LaunchBeforeDelay(announce, launch) ==
    (IF announce THEN << "disconnected" >> ELSE << >>)
    \o << "launch" >>
    \o (IF launch = "ok" THEN << >>
        ELSE IF script = "player" THEN << "launch_error" >> ELSE << >>)
    \o << "restart_delay" >>
    \o (IF launch = "ok" THEN << >> ELSE << "failure_delay" >>)

\* lines 279-291 (player.py 409-424): what the supervisor branch does, in the
\* order of its statements.  announce: the disconnected snapshot is printed.
\* "launch_error" is the snapshot _launch_playerctl_process prints when it fails.
SupervisorOrder(announce, launch) ==
    (IF announce THEN << "disconnected" >> ELSE << >>)
    \o << "restart_delay", "launch" >>
    \o (IF launch = "ok" THEN << >>
        ELSE IF script = "player" THEN << "launch_error", "failure_delay" >>
        ELSE << "failure_delay" >>)

\* mutant: the relaunch leaves the parser as the subprocess before left it
SupervisorKeepsParser(launch, fault) ==
    /\ script = "lyrics"
    /\ pc = "loop"
    /\ playerctl_process \in { "None", "exited" }
    /\ fault \in { "none", "stdout" }
    /\ IF fault = "stdout"
       THEN Apply([ Unchanged("supervisor") EXCEPT
                      !.raised = TRUE, !.turn.lines = 0, !.turn.error = "escaped" ])
       ELSE Apply([ Unchanged("supervisor") EXCEPT
                      !.info = [ cached_song_info EXCEPT !.status = << "stopped" >> ],
                      !.process = IF launch = "ok" THEN "running" ELSE "None",
                      !.turn = [ Idle("supervisor") EXCEPT
                                   !.launches = 1,
                                   !.started = IF launch = "ok" THEN 1 ELSE 0,
                                   !.order = SupervisorOrder(TRUE, launch),
                                   !.launch = launch,
                                   !.slept = IF launch = "ok" THEN PLAYERCTL_RESTART_DELAY_SECONDS
                                             ELSE PLAYERCTL_RESTART_DELAY_SECONDS
                                                  + PLAYERCTL_RESTART_FAILURE_DELAY_SECONDS,
                                   !.snapshots = << Snapshot(<< "Player Disconnected" >>,
                                                      << "Attempting to reconnect playerctl" >>,
                                                      << "offline" >>) >> ] ])
    /\ UNCHANGED now

\* lines 275-293: no subprocess, or one that has exited
Supervisor(launch, fault) ==
    /\ script = "lyrics"
    /\ pc = "loop"
    /\ playerctl_process \in { "None", "exited" }
    /\ fault \in { "none", "stdout" }
    /\ IF fault = "stdout"
       THEN Apply([ Unchanged("supervisor") EXCEPT
                      !.raised = TRUE, !.turn.lines = 0, !.turn.error = "escaped" ])
       ELSE Apply([ Unchanged("supervisor") EXCEPT
                      !.info = [ cached_song_info EXCEPT !.status = << "stopped" >> ],
                      !.process = IF launch = "ok" THEN "running" ELSE "None",
                      !.parsing = FALSE,
                      !.dict = EmptyDict,
                      !.turn = [ Idle("supervisor") EXCEPT
                                   !.launches = 1,
                                   !.started = IF launch = "ok" THEN 1 ELSE 0,
                                   !.order = SupervisorOrder(TRUE, launch),
                                   !.launch = launch,
                                   !.slept = IF launch = "ok" THEN PLAYERCTL_RESTART_DELAY_SECONDS
                                             ELSE PLAYERCTL_RESTART_DELAY_SECONDS
                                                  + PLAYERCTL_RESTART_FAILURE_DELAY_SECONDS,
                                   !.snapshots = << Snapshot(<< "Player Disconnected" >>,
                                                      << "Attempting to reconnect playerctl" >>,
                                                      << "offline" >>) >> ] ])
    /\ UNCHANGED now

\* lines 295-431 and 492-504: readline() returns within its timeout.
\* A fault is drawn only where the step prints or raises, an answer of the
\* lookup only where the lookup is called.
ReadLine(raw, api, fault) ==
    /\ script = "lyrics"
    /\ pc = "loop"
    /\ playerctl_process = "running"
    /\ api # "error" => (is_parsing_metadata_block /\ raw = EndLine)
    /\ fault # "none" => (is_parsing_metadata_block => FirstColon(raw, 1) = 0)
    /\ \E quiet \in { LineOutcome(raw, api, TRUE) } :
          /\ fault = "stdout" => (quiet.turn.snapshots # << >> \/ quiet.raised)
          /\ fault = "logfile" => quiet.raised
          /\ api # "error" => quiet.turn.looked_up
          /\ \E o \in { IF fault = "stdout" THEN LineOutcome(raw, api, FALSE) ELSE quiet } :
                \E done \in { Observed(IF o.raised THEN GeneralHandler(o, fault) ELSE o,
                                       raw, NoProbe) } : Apply(done)
    /\ UNCHANGED now

\* lines 433-490: readline() times out
ReadTimeout(probe, fault) ==
    /\ script = "lyrics"
    /\ pc = "loop"
    /\ playerctl_process = "running"
    /\ fault \in { "none", "stdout" }
    /\ fault = "stdout" => TimeoutOutcome(probe, TRUE).turn.snapshots # << >>
    /\ \E done \in { Observed(TimeoutOutcome(probe, fault # "stdout"), None, probe) } :
          Apply(done)
    /\ UNCHANGED now

\* player.py: the script

\* Assign the globals of an outcome o of a step of player.py.  When an
\* exception leaves main_loop_async the process ends, and its globals with it.
PlayerApplyGlobals(o) ==
    /\ current_player_status_cache' = IF o.crashed THEN << "stopped" >> ELSE o.status
    /\ last_processed_mpris_track_id_global' = IF o.crashed THEN None ELSE o.last
    /\ last_known_art_url' = IF o.crashed THEN None ELSE o.art_url
    /\ last_track_id_file' = o.id_file
    /\ last_art_operation_timestamp' =
           IF o.crashed THEN NeverOperated ELSE last_art_operation_timestamp
    /\ art_completed_at' = IF o.crashed THEN NeverOperated ELSE art_completed_at
    /\ art_tasks' = IF ~ArtFollowed THEN art_tasks
                    ELSE IF o.crashed THEN << >>
                    ELSE art_tasks \o o.spawn
    /\ last_block' = IF ArtFollowed /\ ~o.crashed
                         /\ o.turn.branch = "block" /\ o.turn.error = "none"
                      THEN o.turn.block ELSE last_block
    /\ UNCHANGED << art_files, current_art >>
    /\ turn' = o.turn
    /\ received' = Received(o.turn)
    /\ status_checks' = StatusChecks(o.turn)
    /\ UNCHANGED << script, lyrics_state >>

\* Assign an outcome o of a step of player.py to the variables, the subprocess,
\* the parser and the position of the reactor included.
PlayerApply(o) ==
    /\ PlayerApplyGlobals(o)
    /\ playerctl_process' = IF o.crashed THEN "None" ELSE o.process
    /\ is_parsing_metadata_block' = IF o.crashed THEN FALSE ELSE o.parsing
    /\ active_metadata_dict' = IF o.crashed THEN EmptyDict ELSE o.dict
    /\ pc' = IF o.crashed THEN "crashed" ELSE "loop"
    /\ alive' = IF o.crashed THEN 0
                ELSE alive + o.turn.started - o.turn.kills - o.turn.waits

\* lines 368-380: the snapshot _launch_playerctl_process prints when it fails
LaunchErrorSnapshot(launch) ==
    Snapshot(NormalizeSpaces(Icon(ICON_STOP) \o << "playerctl", " ", "error" >>),
             IF launch = "not_found" THEN << "playerctl not found" >>
             ELSE << "Failed to start playerctl: str(e)" >>,
             << "error" >>)

\* lines 382-399: main_loop_async up to the loop
PlayerStart(launch, fault) ==
    /\ script = "player"
    /\ pc = "start"
    /\ fault \in { "none", "stdout" }
    /\ fault = "stdout" => launch # "ok"
    /\ LET loaded == LoadLastTrackId(last_track_id_file)
           begun  == [ PlayerUnchanged("start") EXCEPT
                         !.last = loaded.value,
                         !.process = IF launch = "ok" THEN "running" ELSE "None",
                         !.parsing = FALSE,
                         !.dict = EmptyDict,
                         !.turn = [ Idle("start") EXCEPT
                                      !.launches = IF loaded.raised THEN 0 ELSE 1,
                                      !.started = IF launch = "ok" /\ ~loaded.raised
                                                  THEN 1 ELSE 0,
                                      !.launch = IF loaded.raised THEN "none" ELSE launch,
                                      !.snapshots = IF launch = "ok" \/ fault = "stdout" \/ loaded.raised
                                                    THEN << >>
                                                    ELSE << LaunchErrorSnapshot(launch) >>,
                                      !.error = IF loaded.raised \/ fault = "stdout"
                                                THEN "escaped" ELSE "none" ] ]
       IN  PlayerApply(begun @@ [ crashed |-> loaded.raised \/ fault = "stdout" ])
    /\ UNCHANGED now

\* lines 402-426: no subprocess, or one that has exited
PlayerSupervisor(launch, fault) ==
    /\ script = "player"
    /\ pc = "loop"
    /\ playerctl_process \in { "None", "exited" }
    /\ fault \in { "none", "stdout" }
    /\ fault = "stdout" => (current_player_status_cache # << "offline" >> \/ launch # "ok")
    /\ LET idle == [ PlayerUnchanged("supervisor") EXCEPT !.turn.lines = 0 ]
           gone == IF current_player_status_cache # << "offline" >>
                   THEN GoOffline(idle,
                                  Snapshot(NormalizeSpaces(Icon(ICON_STOP) \o << "Player", " ", "Disconnected" >>),
                                           << "Playerctl process stopped" >>, << "offline" >>),
                                  << "offline" >>, fault # "stdout")
                   ELSE idle
           relaunched ==
               [ gone EXCEPT
                   !.process = IF launch = "ok" THEN "running" ELSE "None",
                   !.parsing = FALSE,
                   !.dict = EmptyDict,
                   !.turn.launches = 1,
                   !.turn.started = IF launch = "ok" THEN 1 ELSE 0,
                   !.turn.order =
                       SupervisorOrder(current_player_status_cache # << "offline" >>, launch),
                   !.turn.launch = launch,
                   !.turn.slept = IF launch = "ok" THEN PLAYERCTL_RESTART_DELAY_SECONDS
                                  ELSE PLAYERCTL_RESTART_DELAY_SECONDS
                                       + PLAYERCTL_RESTART_FAILURE_DELAY_SECONDS,
                   !.turn.snapshots = IF launch = "ok" THEN gone.turn.snapshots
                                      ELSE gone.turn.snapshots \o << LaunchErrorSnapshot(launch) >> ]
       IN  IF fault = "stdout"
           THEN \* the supervisor runs outside the try statement
                PlayerApply([ idle EXCEPT !.turn.error = "escaped",
                                          !.turn.launches = IF gone.raised = "no" THEN 1 ELSE 0,
                                          !.turn.launch = IF gone.raised = "no" THEN launch
                                                          ELSE "none" ]
                            @@ [ crashed |-> TRUE ])
           ELSE PlayerApply(relaunched @@ [ crashed |-> FALSE ])
    /\ UNCHANGED now

\* lines 428-479 and 538-556: readline() returns within its timeout
PlayerReadLine(raw, fault, art_exists) ==
    /\ script = "player"
    /\ pc = "loop"
    /\ playerctl_process = "running"
    /\ art_exists => (is_parsing_metadata_block /\ Strip(raw) = PLAYER_DATA_END_MARKER)
    /\ fault # "none" => (is_parsing_metadata_block => FirstColon(raw, 1) = 0)
    /\ \E quiet \in { PlayerLineOutcome(raw, TRUE, art_exists) } :
          /\ fault = "stdout" =>
                \/ quiet.turn.snapshots # << >>
                \/ (quiet.raised # "no" /\ current_player_status_cache # << "error" >>)
          /\ fault = "logfile" => quiet.raised # "no"
          /\ \E o \in { IF fault = "stdout" THEN PlayerLineOutcome(raw, FALSE, art_exists)
                        ELSE quiet } :
                \E done \in { Observed(PlayerHandlers(o, fault), raw, NoProbe) } :
                   PlayerApply(done)
    /\ UNCHANGED now

\* lines 481-536: readline() times out
PlayerReadTimeout(probe, fault) ==
    /\ script = "player"
    /\ pc = "loop"
    /\ playerctl_process = "running"
    /\ fault \in { "none", "stdout" }
    /\ fault = "stdout" => PlayerTimeoutOutcome(probe, TRUE).turn.snapshots # << >>
    /\ \E o \in { PlayerTimeoutOutcome(probe, fault # "stdout") } :
          \E done \in { Observed(IF o.raised = "no" THEN o @@ [ crashed |-> FALSE ]
                                 ELSE [ o EXCEPT !.turn.error = "escaped" ] @@ [ crashed |-> TRUE ],
                                 None, probe) } :
             PlayerApply(done)
    /\ UNCHANGED now

\* the sequence s without its i-th element
Without(s, i) == SubSeq(s, 1, i - 1) \o SubSeq(s, i + 1, Len(s))

\* the outcomes of process_album_art that reach line 235
ArtCompleted == { "reused", "fetched", "fetch_failed" }

\* what a step of process_album_art found when it ran (observation only)
ArtFound(name) ==
    [ file_before |-> ArtFileExists(art_files, name),
      since_completed |-> now - art_completed_at,
      link_before |-> current_art,
      in_window   |-> (now - last_art_operation_timestamp) < ART_UPDATE_COOLDOWN_SECONDS,
      known_url   |-> last_known_art_url,
      known_id    |-> last_processed_mpris_track_id_global ]

\* the variables a step of process_album_art leaves alone
art_frame == << script, pc, lyrics_state, current_player_status_cache,
               last_processed_mpris_track_id_global, last_known_art_url, last_track_id_file,
               last_block, playerctl_process, is_parsing_metadata_block,
               active_metadata_dict, now, alive, received, status_checks >>

(* lines 115-203: the event loop starts the oldest task that has not run     *)
(* yet (tasks start in the order of their creation) and runs it to its       *)
(* first await, or to its end when it has none.                              *)
ArtTaskRuns(source_exists) ==
    /\ script = "player"
    /\ pc = "loop"
    /\ ArtFollowed
    /\ \E i \in 1..Len(art_tasks) :
          /\ art_tasks[i].at = "created"
          /\ \A j \in 1..(i - 1) : art_tasks[j].at = "fetching"
          /\ source_exists => (Truthy(art_tasks[i].art_url_param)
                                /\ IsFileUrl(art_tasks[i].art_url_param))
          /\ LET task == [ art_tasks[i] EXCEPT !.current_time = now ]
                 o    == process_album_art(task, source_exists)
             IN  /\ art_tasks' = IF o.at = "done" THEN Without(art_tasks, i)
                                  ELSE [ art_tasks EXCEPT ![i] = [ task EXCEPT !.at = "fetching" ] ]
                 /\ art_files' = o.files
                 /\ current_art' = o.current
                 /\ last_art_operation_timestamp' = o.stamp
                 /\ art_completed_at' = IF o.art.did \in ArtCompleted THEN now
                                        ELSE art_completed_at
                 /\ turn' = [ Idle("art") EXCEPT !.art = o.art @@ ArtFound(o.art.name) ]
    /\ UNCHANGED art_frame

\* lines 186-238: the download or the copy of task i ends and the task runs to its end
ArtFetchEnds(i, result) ==
    /\ script = "player"
    /\ pc = "loop"
    /\ ArtFollowed
    /\ i \in 1..Len(art_tasks)
    /\ art_tasks[i].at = "fetching"
    /\ LET o == process_album_art_resumed(art_tasks[i], result)
       IN  /\ art_tasks' = Without(art_tasks, i)
           /\ art_files' = o.files
           /\ current_art' = o.current
           /\ last_art_operation_timestamp' = o.stamp
           /\ art_completed_at' = now
           /\ turn' = [ Idle("art") EXCEPT !.art = o.art @@ ArtFound(o.art.name) ]
    /\ UNCHANGED art_frame

\* the subprocess exits and asyncio records its return code
ProcessExits ==
    /\ pc = "loop"
    /\ playerctl_process = "running"
    /\ playerctl_process' = "exited"
    /\ alive' = alive - 1
    /\ turn' = Idle("environment")
    /\ UNCHANGED << script, pc, lyrics_state, player_state,
                    is_parsing_metadata_block, active_metadata_dict, now, received, status_checks >>

\* time passes
Tick(t) ==
    /\ t > now
    /\ now' = t
    /\ turn' = Idle("environment")
    /\ UNCHANGED << script, pc, lyrics_state, player_state, alive,
                    playerctl_process, is_parsing_metadata_block, active_metadata_dict, received, status_checks >>

\* somebody removes a lyrics document
RemoveLyricsFile(path) ==
    /\ path \in DOMAIN lyrics_files
    /\ lyrics_files' = [ f \in (DOMAIN lyrics_files) \ { path } |-> lyrics_files[f] ]
    /\ turn' = Idle("environment")
    /\ UNCHANGED << script, pc, cached_song_info, last_processed_playerctl_track_id_from_event,
                    playerctl_process, is_parsing_metadata_block, active_metadata_dict,
                    song_info_cache_file, player_state, now, alive, received, status_checks >>

\* a lyrics document is left empty: open(file_path, 'w') of line 163 has
\* truncated it and the write did not happen, or somebody emptied it
TruncateLyricsFile(path) ==
    /\ path \in DOMAIN lyrics_files
    /\ lyrics_files[path] # << >>
    /\ lyrics_files' = [ lyrics_files EXCEPT ![path] = << >> ]
    /\ turn' = Idle("environment")
    /\ UNCHANGED << script, pc, cached_song_info, last_processed_playerctl_track_id_from_event,
                    playerctl_process, is_parsing_metadata_block, active_metadata_dict,
                    song_info_cache_file, player_state, now, alive, received, status_checks >>

\* lines 518-520: KeyboardInterrupt while the loop waits; the process ends
Cancel ==
    /\ pc = "loop"
    /\ pc' = "cancelled"
    /\ cached_song_info' = DefaultSongInfo
    /\ last_processed_playerctl_track_id_from_event' = None
    /\ playerctl_process' = "None"
    /\ is_parsing_metadata_block' = FALSE
    /\ active_metadata_dict' = EmptyDict
    /\ current_player_status_cache' = << "stopped" >>
    /\ last_processed_mpris_track_id_global' = None
    /\ last_known_art_url' = None
    /\ last_art_operation_timestamp' = NeverOperated
    /\ art_completed_at' = NeverOperated
    /\ art_tasks' = IF ~ArtFollowed THEN art_tasks ELSE << >>
    /\ alive' = 0
    /\ turn' = Idle("cancel")
    /\ UNCHANGED << script, song_info_cache_file, lyrics_files, last_track_id_file, now, received, status_checks,
                    art_files, current_art, last_block >>

\* the script is started again
Restart ==
    /\ pc \in { "returned", "crashed", "cancelled" }
    /\ pc' = "start"
    /\ turn' = Idle("restart")
    /\ UNCHANGED << script, lyrics_state, player_state, alive,
                    playerctl_process, is_parsing_metadata_block, active_metadata_dict, now, received, status_checks >>

\* the state of either script when it is started for the first time
Boot ==
    /\ script \in { "lyrics", "player" }
    /\ pc = "start"
    /\ cached_song_info = DefaultSongInfo
    /\ last_processed_playerctl_track_id_from_event = None
    /\ playerctl_process = "None"
    /\ is_parsing_metadata_block = FALSE
    /\ active_metadata_dict = EmptyDict
    /\ song_info_cache_file \in (IF script = "lyrics" THEN InitialCacheFiles ELSE { NoFile })
    /\ lyrics_files = << >>
    /\ current_player_status_cache = << "stopped" >>
    /\ last_processed_mpris_track_id_global = None
    /\ last_known_art_url = None
    /\ last_track_id_file \in (IF script = "player" THEN InitialCacheFiles ELSE { NoFile })
    /\ last_art_operation_timestamp = NeverOperated
    /\ art_completed_at = NeverOperated
    /\ art_files = << >>
    /\ current_art = None
    /\ last_block = NoBlock
    /\ now = 0
    /\ alive = 0
    /\ turn = Idle("init")

Init == Boot /\ received = NotKept /\ art_tasks = NotFollowed /\ status_checks = NotCounted

\* Either script with its subprocess, its faults and its restarts; one track.
Next ==
    \/ \E launch \in LaunchResults, fault \in Faults : Start(launch, fault)
    \/ \E launch \in LaunchResults, fault \in Faults : Supervisor(launch, fault)
    \/ \E raw \in ReactorLines, api \in ApiAnswers, fault \in Faults :
          ReadLine(raw, api, fault)
    \/ \E probe \in Probes, fault \in Faults : ReadTimeout(probe, fault)
    \/ \E launch \in LaunchResults, fault \in Faults : PlayerStart(launch, fault)
    \/ \E launch \in LaunchResults, fault \in Faults : PlayerSupervisor(launch, fault)
    \/ \E raw \in PlayerLines, fault \in Faults, art_exists \in BOOLEAN :
          PlayerReadLine(raw, fault, art_exists)
    \/ \E probe \in Probes, fault \in Faults : PlayerReadTimeout(probe, fault)
    \/ ProcessExits
    \/ Cancel
    \/ Restart

Spec == Init /\ [][Next]_vars

\* The reactor fed blocks of two tracks, with the clock and the lyrics
\* directory changing under it; nothing raises.
NextTracks ==
    \/ Start("ok", "none")
    \/ \E raw \in TrackLines, api \in ApiAnswers : ReadLine(raw, api, "none")
    \/ \E t \in ClockValues : Tick(t)
    \/ \E path \in DOMAIN lyrics_files : RemoveLyricsFile(path)

InitTracks == Init /\ script = "lyrics"

SpecTracks == InitTracks /\ [][NextTracks]_vars

\* The reactor fed blocks of two tracks, with the documents of the lyrics
\* directory removed or left empty under it; nothing raises.
NextFiles ==
    \/ Start("ok", "none")
    \/ \E raw \in TrackLines, api \in ApiAnswers : ReadLine(raw, api, "none")
    \/ \E path \in DOMAIN lyrics_files : RemoveLyricsFile(path)
    \/ \E path \in DOMAIN lyrics_files : TruncateLyricsFile(path)

SpecFiles == InitTracks /\ [][NextFiles]_vars

\* how many process_album_art tasks are followed at a time
MaxArtTasks == 2

\* art URLs: one over http, one of a local file, one of a scheme not known
ArtUrls == { << "http", ":", "//1" >>, << "file", ":", "//", "/f" >>, << "data", ":", "x" >> }

\* the clock of SpecArt: the start, and one cooldown window later
ArtClockValues == { 0, ART_UPDATE_COOLDOWN_SECONDS }

\* what readline() returns in the specification SpecArt
ArtLines ==
    { PLAYER_DATA_BEGIN_MARKER \o << "\n" >>, PLAYER_DATA_END_MARKER \o << "\n" >>, StopLine,
      KeyValueLine("title", << "a" >>),
      KeyValueLine("trackid", << "t1" >>), KeyValueLine("trackid", << "t2" >>) }
    \cup { KeyValueLine("artUrl", url) : url \in ArtUrls }

\* how a download or a copy ends
FetchResults == { "image", "empty", "error" }

(* readline() returns a line of playerctl, which writes its blocks whole     *)
(* and in the order of PLAYERCTL_CUSTOM_FORMAT_STRING (lines 59-71): title,  *)
(* artUrl, trackid.  The snapshot says what the link pointed to when the     *)
(* block ended.  No task is created while `cap` tasks are followed.           *)
ArtReadLine(raw, cap) ==
    /\ ArtFollowed
    /\ LET line == Strip(raw)
           key  == IF FirstColon(line, 1) = 0 THEN << >>
                   ELSE SubSeq(line, 1, FirstColon(line, 1) - 1)
           had  == DOMAIN active_metadata_dict
       IN  /\ line = PLAYER_DATA_BEGIN_MARKER => ~is_parsing_metadata_block
           /\ raw = StopLine => ~is_parsing_metadata_block
           /\ key = << "title" >> => (is_parsing_metadata_block /\ had = { })
           /\ key = << "artUrl" >> => (is_parsing_metadata_block /\ had = { << "title" >> })
           /\ key = << "trackid" >> =>
                 (is_parsing_metadata_block /\ << "title" >> \in had /\ << "trackid" >> \notin had)
           /\ line = PLAYER_DATA_END_MARKER =>
                 (is_parsing_metadata_block /\ << "trackid" >> \in had)
           /\ (line = PLAYER_DATA_END_MARKER \/ raw = StopLine) => Len(art_tasks) < cap
           /\ PlayerReadLine(raw, "none",
                             /\ CurrentArtExists(art_files, current_art)
                             /\ is_parsing_metadata_block
                             /\ line = PLAYER_DATA_END_MARKER)

\* player.py fed whole blocks of one title and two track ids, with one
\* process_album_art task at a time, its download or copy, and the clock;
\* nothing raises.
NextArt ==
    \/ PlayerStart("ok", "none")
    \/ \E raw \in ArtLines : ArtReadLine(raw, 1)
    \/ \E source_exists \in BOOLEAN : ArtTaskRuns(source_exists)
    \/ \E result \in FetchResults : ArtFetchEnds(1, result)
    \/ \E t \in ArtClockValues : Tick(t)

InitArt ==
    /\ Boot
    /\ script = "player"
    /\ last_track_id_file = NoFile
    /\ art_tasks = << >>
    /\ received = NotKept
    /\ status_checks = NotCounted

SpecArt == InitArt /\ [][NextArt]_vars

\* what readline() returns in the specification SpecArtRace
RaceLines ==
    { PLAYER_DATA_BEGIN_MARKER \o << "\n" >>, PLAYER_DATA_END_MARKER \o << "\n" >>,
      KeyValueLine("title", << "a" >>), KeyValueLine("title", << "b" >>),
      KeyValueLine("trackid", << "t1" >>), KeyValueLine("trackid", << "t2" >>),
      KeyValueLine("artUrl", << "http", ":", "//1" >>) }

\* player.py fed whole blocks of two titles and two track ids, with up to
\* MaxArtTasks process_album_art tasks at a time and their downloads taking
\* any time; nothing raises.
NextArtRace ==
    \/ PlayerStart("ok", "none")
    \/ \E raw \in RaceLines : ArtReadLine(raw, MaxArtTasks)
    \/ ArtTaskRuns(FALSE)
    \/ \E i \in 1..MaxArtTasks, result \in { "image", "error" } : ArtFetchEnds(i, result)

SpecArtRace == InitArt /\ [][NextArtRace]_vars

\* what readline() returns in the specification SpecStop: the markers, a
\* title, and two lines that carry a stop phrase, one of them a status line
StopPhraseLines ==
    { BeginLine, EndLine, PLAYER_DATA_BEGIN_MARKER \o << "\n" >>,
      PLAYER_DATA_END_MARKER \o << "\n" >>,
      StopLine, KeyValueLine("status", << "Stopped" >>), KeyValueLine("status", << "Playing" >>),
      KeyValueLine("title", << "a" >>) }

\* either script fed markers, a title, status lines and the line playerctl
\* writes when no player is left, inside and outside blocks; nothing raises.
NextStop ==
    \/ Start("ok", "none")
    \/ PlayerStart("ok", "none")
    \/ \E raw \in StopPhraseLines, api \in { "error", "lyrics" } : ReadLine(raw, api, "none")
    \/ \E raw \in StopPhraseLines : PlayerReadLine(raw, "none", FALSE)

SpecStop == Init /\ [][NextStop]_vars

\* how many lines an LRC document of SpecLrc has at most
MaxLrcLines == 3

\* lines of LRC documents: an offset that pushes the early tags below zero, a
\* line with two tags out of order, two lines on one timestamp, a late line
\* that comes first when the document lists it first, a line without a tag
LrcLines ==
    { [ kind |-> "offset", offset |-> 6000 ],
      [ kind |-> "lyric", tags |-> << LrcTag(0, 10), LrcTag(0, 0) >>, text |-> << "x" >> ],
      [ kind |-> "lyric", tags |-> << LrcTag(0, 10) >>, text |-> << "y" >> ],
      [ kind |-> "lyric", tags |-> << LrcTag(0, 5) >>, text |-> << "z" >> ],
      [ kind |-> "plain", text |-> << "p" >> ] }

LrcDocuments == UNION { [ 1..n -> LrcLines ] : n \in 1..MaxLrcLines }

LrcBlockLines ==
    { BeginLine, EndLine, KeyValueLine("title", << "a" >>), KeyValueLine("status", << "Playing" >>) }

\* lyrics.py in its loop with no session and one LRC document on disk for the
\* title "a", as a lookup of an earlier run left it there (lines 159-165)
InitLrc ==
    /\ script = "lyrics"
    /\ pc = "loop"
    /\ cached_song_info = DefaultSongInfo
    /\ last_processed_playerctl_track_id_from_event = None
    /\ playerctl_process = "running"
    /\ is_parsing_metadata_block = FALSE
    /\ active_metadata_dict = EmptyDict
    /\ song_info_cache_file = NoFile
    /\ \E doc \in LrcDocuments :
          lyrics_files = save_lyrics_to_local_file(<< "a" >>, << >>, doc, << >>)
    /\ current_player_status_cache = << "stopped" >>
    /\ last_processed_mpris_track_id_global = None
    /\ last_known_art_url = None
    /\ last_track_id_file = NoFile
    /\ last_art_operation_timestamp = NeverOperated
    /\ art_completed_at = NeverOperated
    /\ art_tasks = NotFollowed
    /\ art_files = << >>
    /\ current_art = None
    /\ last_block = NoBlock
    /\ now = 0
    /\ alive = 1
    /\ turn = Idle("init")
    /\ received = NotKept
    /\ status_checks = NotCounted

\* the reactor fed blocks of the track whose document is on disk
NextLrc == \E raw \in LrcBlockLines, api \in { "error", "lyrics" } : ReadLine(raw, api, "none")

SpecLrc == InitLrc /\ [][NextLrc]_vars

IdentityLines ==
    { BeginLine, EndLine, KeyValueLine("title", << "a" >>), KeyValueLine("title", << "b" >>),
      KeyValueLine("track_id", << "t2" >>), KeyValueLine("status", << "Playing" >>) }

\* lyrics.py fed blocks of a playing player that reports two titles, with and
\* without a track id and a title; nothing raises.
NextIdentity ==
    \/ Start("ok", "none")
    \/ \E raw \in IdentityLines, api \in { "error", "lyrics" } : ReadLine(raw, api, "none")

SpecIdentity == InitTracks /\ [][NextIdentity]_vars

\* what readline() returns in the specification SpecArtGone
GoneLines ==
    { PLAYER_DATA_BEGIN_MARKER \o << "\n" >>, PLAYER_DATA_END_MARKER \o << "\n" >>, StopLine,
      KeyValueLine("title", << "a" >>), KeyValueLine("trackid", << "t1" >>),
      KeyValueLine("artUrl", << "http", ":", "//1" >>) }

\* player.py fed whole blocks of one track and the line playerctl writes when
\* no player is left, with up to MaxArtTasks process_album_art tasks at a time
\* and their downloads taking any time; nothing raises.
NextArtGone ==
    \/ PlayerStart("ok", "none")
    \/ \E raw \in GoneLines : ArtReadLine(raw, MaxArtTasks)
    \/ ArtTaskRuns(FALSE)
    \/ \E i \in 1..MaxArtTasks, result \in { "image", "error" } : ArtFetchEnds(i, result)

SpecArtGone == InitArt /\ [][NextArtGone]_vars

\* what readline() returns in the specification SpecArtKeys
ArtKeyLines ==
    { PLAYER_DATA_BEGIN_MARKER \o << "\n" >>, PLAYER_DATA_END_MARKER \o << "\n" >>,
      KeyValueLine("title", << "a" >>), KeyValueLine("title", << "b" >>),
      KeyValueLine("artUrl", << "http", ":", "//1" >>),
      KeyValueLine("artUrl", << "http", ":", "//2" >>),
      KeyValueLine("trackid", << "t1" >>) }

\* player.py fed whole blocks of two titles and two art URLs, by a player
\* that supplies a track id and by one that supplies none (playerctl then
\* writes `trackid:` with nothing after it, which the blocks here leave out:
\* both read as the empty string, line 262), one process_album_art task at a
\* time whose download fails; nothing raises.
NextArtKeys ==
    \/ PlayerStart("ok", "none")
    \/ \E raw \in ArtKeyLines :
          LET line == Strip(raw)
              key  == IF FirstColon(line, 1) = 0 THEN << >>
                      ELSE SubSeq(line, 1, FirstColon(line, 1) - 1)
              had  == DOMAIN active_metadata_dict
          IN  /\ ArtFollowed
              /\ line = PLAYER_DATA_BEGIN_MARKER => ~is_parsing_metadata_block
              /\ key = << "title" >> => (is_parsing_metadata_block /\ had = { })
              /\ key = << "artUrl" >> => (is_parsing_metadata_block /\ had = { << "title" >> })
              /\ key = << "trackid" >> =>
                    (is_parsing_metadata_block /\ << "title" >> \in had /\ << "trackid" >> \notin had)
              /\ line = PLAYER_DATA_END_MARKER =>
                    (is_parsing_metadata_block /\ << "title" >> \in had /\ Len(art_tasks) < 1)
              /\ PlayerReadLine(raw, "none",
                                /\ CurrentArtExists(art_files, current_art)
                                /\ is_parsing_metadata_block
                                /\ line = PLAYER_DATA_END_MARKER)
    \/ ArtTaskRuns(FALSE)
    \/ ArtFetchEnds(1, "error")

SpecArtKeys == InitArt /\ [][NextArtKeys]_vars

(* Where the steps above take `await playerctl_process.wait()` for done,   *)
(* the actions below stop at it: pc = "waiting" while the reactor is          *)
(* suspended in the await, and it goes on when the subprocess has exited.     *)

\* the step awaits a subprocess that it has not killed
AwaitsSubprocess(t) == t.waits > 0 /\ t.kills = 0

\* lyrics.py, lines 298-306: readline(), up to the await of line 305
ReadLineOrAwait(raw) ==
    IF raw = << >>
    THEN /\ script = "lyrics"
         /\ pc = "loop"
         /\ playerctl_process = "running"
         /\ pc' = "waiting"
         /\ turn' = Observed(EndOfStream, raw, NoProbe).turn
         /\ UNCHANGED << script, lyrics_state, player_state, playerctl_process,
                         is_parsing_metadata_block, active_metadata_dict, now, alive, received, status_checks >>
    ELSE ReadLine(raw, "error", "none")

\* player.py, lines 428-436 and 538-543: readline(), up to the await of line 436 or 543
PlayerReadLineOrAwait(raw, fault) ==
    /\ script = "player"
    /\ pc = "loop"
    /\ playerctl_process = "running"
    /\ fault \in { "none", "stdout" }
    /\ \E quiet \in { PlayerLineOutcome(raw, TRUE, FALSE) } :
          /\ fault = "stdout" =>
                \/ quiet.turn.snapshots # << >>
                \/ (quiet.raised # "no" /\ current_player_status_cache # << "error" >>)
          /\ \E o \in { IF fault = "stdout" THEN PlayerLineOutcome(raw, FALSE, FALSE)
                        ELSE quiet } :
                \E done \in { Observed(PlayerHandlers(o, fault), raw, NoProbe) } :
                   IF ~done.crashed /\ AwaitsSubprocess(done.turn)
                   THEN /\ PlayerApplyGlobals(done)
                        /\ pc' = "waiting"
                        /\ UNCHANGED << playerctl_process, is_parsing_metadata_block,
                                        active_metadata_dict, alive >>
                   ELSE PlayerApply(done)
    /\ UNCHANGED now

\* lyrics.py 305-308, player.py 436-440 and 543-544: the subprocess has exited,
\* wait() returns, the reactor forgets the subprocess and goes to the loop head
AwaitReturns ==
    /\ pc = "waiting"
    /\ pc' = "loop"
    /\ playerctl_process' = "None"
    /\ is_parsing_metadata_block' = FALSE
    /\ active_metadata_dict' = EmptyDict
    /\ alive' = alive - 1
    /\ turn' = [ Idle("await_returned") EXCEPT !.waits = 1 ]
    /\ UNCHANGED << script, lyrics_state, player_state, now, received, status_checks >>

\* the subprocess that closed its stdout ends
SubprocessEndsAfterEof == turn.branch = "eof" /\ AwaitReturns

\* the subprocess that was still writing ends, if it ever does
SubprocessEndsOnItsOwn == turn.branch # "eof" /\ AwaitReturns

\* a status check that cannot be started
ProbeNotStarted == [ how |-> "spawn_error", returncode |-> 0, stdout |-> << >> ]

\* Either script with its subprocess ending its output, the pipe to waybar
\* closing and status checks that cannot be started.  A subprocess that has
\* closed its stdout exits; one that has not may run for ever.
NextAwait ==
    \/ Start("ok", "none")
    \/ PlayerStart("ok", "none")
    \/ Supervisor("ok", "none")
    \/ PlayerSupervisor("ok", "none")
    \/ \E raw \in { BeginLine, EndLine, KeyValueLine("title", << "a" >>), << >>, StopLine } :
          ReadLineOrAwait(raw)
    \/ \E raw \in { PLAYER_DATA_BEGIN_MARKER \o << "\n" >>, PLAYER_DATA_END_MARKER \o << "\n" >>,
                     KeyValueLine("title", << "a" >>), << >>, StopLine },
          fault \in { "none", "stdout" } : PlayerReadLineOrAwait(raw, fault)
    \/ PlayerReadTimeout(ProbeNotStarted, "none")
    \/ SubprocessEndsAfterEof
    \/ SubprocessEndsOnItsOwn

SpecAwait ==
    /\ Init
    /\ [][NextAwait]_vars
    /\ WF_vars(SubprocessEndsAfterEof)

\* how many status checks SpecProbes lets be alive at a time
MaxStatusChecks == 3

\* how `playerctl status` ends in SpecProbes
ProbeEndings ==
    { [ how |-> "timeout", returncode |-> 0, stdout |-> << >> ],
      [ how |-> "exit", returncode |-> 0, stdout |-> << "Playing", "\n" >> ],
      [ how |-> "exit", returncode |-> 1, stdout |-> << >> ] }

\* readline() times out and the status check ends as `probe` says
ProbeReadTimeout(probe) ==
    /\ status_checks # NotCounted
    /\ probe.how = "timeout" => status_checks < MaxStatusChecks
    /\ IF script = "lyrics" THEN ReadTimeout(probe, "none") ELSE PlayerReadTimeout(probe, "none")

\* a `playerctl status` process that was left running ends on its own
StatusCheckEnds ==
    /\ status_checks # NotCounted
    /\ status_checks > 0
    /\ status_checks' = status_checks - 1
    /\ turn' = Idle("environment")
    /\ UNCHANGED << script, pc, lyrics_state, player_state, playerctl_process,
                    is_parsing_metadata_block, active_metadata_dict, now, alive, received >>

\* Either script with read timeouts whose status checks answer, fail or hang,
\* between blocks of one track; nothing raises.
NextProbes ==
    \/ Start("ok", "none")
    \/ PlayerStart("ok", "none")
    \/ \E raw \in { BeginLine, EndLine, KeyValueLine("title", << "a" >>),
                    KeyValueLine("status", << "Playing" >>) } : ReadLine(raw, "error", "none")
    \/ \E raw \in { PLAYER_DATA_BEGIN_MARKER \o << "\n" >>, PLAYER_DATA_END_MARKER \o << "\n" >>,
                    KeyValueLine("title", << "a" >>), KeyValueLine("status", << "Playing" >>) } :
          PlayerReadLine(raw, "none", FALSE)
    \/ \E probe \in ProbeEndings : ProbeReadTimeout(probe)
    \/ StatusCheckEnds

InitProbes == Boot /\ received = NotKept /\ art_tasks = NotFollowed /\ status_checks = 0

SpecProbes == InitProbes /\ [][NextProbes]_vars

\* how long the short titles are that the sanitizers are given
MaxNameLen == 2

\* the characters of those titles: plain, filling, forbidden, control, three bytes wide
SanitizeChars == { "a", " ", ".", "_", "/", ":", "U+0001", "U+6B4C" }

\* titles longer than byte_limit bytes: of one-byte characters, of three-byte
\* characters, with a three-byte character across the limit, and with
\* forbidden characters at the limit
LongTitles ==
    { [ i \in 1..(byte_limit + 1) |-> "a" ],
      [ i \in 1..(byte_limit \div 3 + 1) |-> "U+6B4C" ],
      [ i \in 1..byte_limit |-> IF i = byte_limit THEN "U+6B4C" ELSE "a" ],
      [ i \in 1..(byte_limit + 2) |-> IF i >= byte_limit THEN "/" ELSE "a" ] }

\* the titles a block can carry: not empty, stripped (lines 322 and 411)
SanitizeInputs ==
    { name \in UNION { [ 1..n -> SanitizeChars ] : n \in 1..MaxNameLen } : Strip(name) = name }
    \cup LongTitles

(* lyrics.py 136-138 and player.py 125-130: the script makes the file name   *)
(* of the title it has read (no artist).                                     *)
SanitizeTitle ==
    /\ pc = "loop"
    /\ turn.branch = "init"
    /\ << "title" >> \in DOMAIN active_metadata_dict
    /\ LET name == active_metadata_dict[<< "title" >>]
       IN  turn' = Idle("sanitize")
                   @@ [ name |-> name,
                        result |-> IF script = "lyrics" THEN sanitize_filename(name)
                                   ELSE PlayerSanitizeFilename(name) ]
    /\ UNCHANGED << script, pc, lyrics_state, player_state, playerctl_process,
                    is_parsing_metadata_block, active_metadata_dict, now, alive, received, status_checks >>

NextSanitize == SanitizeTitle

\* either script in a block of which it has read the title
InitSanitize ==
    /\ script \in { "lyrics", "player" }
    /\ pc = "loop"
    /\ cached_song_info = DefaultSongInfo
    /\ last_processed_playerctl_track_id_from_event = None
    /\ playerctl_process = "running"
    /\ is_parsing_metadata_block = TRUE
    /\ \E name \in SanitizeInputs :
          active_metadata_dict = DictPut(EmptyDict, << "title" >>, name)
    /\ song_info_cache_file = NoFile
    /\ lyrics_files = << >>
    /\ current_player_status_cache = << "stopped" >>
    /\ last_processed_mpris_track_id_global = None
    /\ last_known_art_url = None
    /\ last_track_id_file = NoFile
    /\ last_art_operation_timestamp = NeverOperated
    /\ art_completed_at = NeverOperated
    /\ art_tasks = NotFollowed
    /\ art_files = << >>
    /\ current_art = None
    /\ last_block = NoBlock
    /\ now = 0
    /\ alive = 1
    /\ turn = Idle("init")
    /\ received = NotKept
    /\ status_checks = NotCounted

SpecSanitize == InitSanitize /\ [][NextSanitize]_vars

\* lyrics.py with its subprocess, the errors its loop handles and its
\* restarts, and the clock going forward under it.
NextClock ==
    \/ \E launch \in LaunchResults : Start(launch, "none")
    \/ \E launch \in LaunchResults : Supervisor(launch, "none")
    \/ \E raw \in ReactorLines, api \in ApiAnswers : ReadLine(raw, api, "none")
    \/ \E probe \in Probes : ReadTimeout(probe, "none")
    \/ \E t \in ClockValues : Tick(t)
    \/ ProcessExits
    \/ Restart

InitClock == Init /\ script = "lyrics"

SpecClock == InitClock /\ [][NextClock]_vars

\* Either script with launches that fail and subprocesses that exit, nothing
\* else going wrong; an attempt to start the subprocess succeeds in the end.
NextRelaunch ==
    \/ \E launch \in LaunchResults : Start(launch, "none")
    \/ \E launch \in LaunchResults : Supervisor(launch, "none")
    \/ \E launch \in LaunchResults : PlayerStart(launch, "none")
    \/ \E launch \in LaunchResults : PlayerSupervisor(launch, "none")
    \/ \E raw \in { BeginLine, << >>, StopLine } : ReadLine(raw, "error", "none")
    \/ \E raw \in { PLAYER_DATA_BEGIN_MARKER \o << "\n" >>, << >>, StopLine } :
          PlayerReadLine(raw, "none", FALSE)
    \/ ProcessExits

SpecRelaunch ==
    /\ Init
    /\ [][NextRelaunch]_vars
    /\ SF_vars(Supervisor("ok", "none"))
    /\ SF_vars(PlayerSupervisor("ok", "none"))

\* the longest run of key:value lines SpecParser feeds after a begin marker
MaxBlockLines == 3

\* key:value lines with repeated keys, whitespace around key and value, a
\* colon in the value and an empty value
PairLines ==
    { KeyValueLine("title", << "a" >>),
      << " ", "title", " ", ":", " ", "b", " ", "\n" >>,
      KeyValueLine("title", << "a", ":", "b" >>),
      KeyValueLine("artist", << "x" >>),
      << "artist", " ", ":", " ", "\n" >> }

\* readline() returns a line of the parser's alphabet, lyrics.py
ParserReadLine(raw) ==
    /\ received # NotKept
    /\ raw \in PairLines => Len(received) < MaxBlockLines
    /\ ReadLine(raw, "error", "none")

\* readline() returns a line of the parser's alphabet, player.py
PlayerParserReadLine(raw) ==
    /\ received # NotKept
    /\ raw \in PairLines => Len(received) < MaxBlockLines
    /\ PlayerReadLine(raw, "none", FALSE)

\* Either script fed begin markers, end markers and key:value lines only.
NextParser ==
    \/ Start("ok", "none")
    \/ PlayerStart("ok", "none")
    \/ \E raw \in PairLines \cup { BeginLine, EndLine } : ParserReadLine(raw)
    \/ \E raw \in PairLines \cup { PLAYER_DATA_BEGIN_MARKER \o << "\n" >>,
                                   PLAYER_DATA_END_MARKER \o << "\n" >> } :
          PlayerParserReadLine(raw)

InitParser ==
    /\ Boot
    /\ song_info_cache_file = NoFile
    /\ last_track_id_file = NoFile
    /\ art_tasks = NotFollowed
    /\ received = << >>
    /\ status_checks = NotCounted

SpecParser == InitParser /\ [][NextParser]_vars

\* what readline() returns in the specification SpecIncarnations: markers,
\* two key:value lines, the end of the stream and a line over the limit
IncarnationLines(begin, end) ==
    { begin, end, KeyValueLine("title", << "a" >>), KeyValueLine("artist", << "x" >>),
      << >>, LimitOverrun }

\* Either script fed blocks, whole and cut short by the end of the stream or
\* by a line over the limit, with its subprocess started again each time.
NextIncarnations ==
    \/ Start("ok", "none")
    \/ PlayerStart("ok", "none")
    \/ \E launch \in { "ok", "spawn_error" } : Supervisor(launch, "none")
    \/ \E launch \in { "ok", "spawn_error" } : PlayerSupervisor(launch, "none")
    \/ \E raw \in IncarnationLines(BeginLine, EndLine) : ParserReadLine(raw)
    \/ \E raw \in IncarnationLines(PLAYER_DATA_BEGIN_MARKER \o << "\n" >>,
                                     PLAYER_DATA_END_MARKER \o << "\n" >>) :
          PlayerParserReadLine(raw)

SpecIncarnations == InitParser /\ [][NextIncarnations]_vars

\* the longest lyric list SpecSelect starts from
MaxLyrics == 3

\* the timestamps of lyric lines, in ms
Timestamps == { 0, 5000, 10000 }

\* the lyric lists of up to MaxLyrics lines in the order parse_lrc leaves them
\* in (line 134: sorted by timestamp, equal timestamps allowed), the text of
\* each line naming its place
SortedLyrics ==
    UNION { { [ i \in 1..n |-> << ts[i], << "line", DigitChar(i) >> >> ] :
                ts \in { t \in [ 1..n -> Timestamps ] :
                            \A i \in 1..(n - 1) : t[i] <= t[i + 1] } } :
            n \in 1..MaxLyrics }

\* position_us lines: -1 ms, 0, 4999, 5000, 6000, 10000 and 12000 ms
PositionLines ==
    { KeyValueLine("position_us", << "-", "1", "0", "0", "0" >>),
      KeyValueLine("position_us", << "0" >>),
      KeyValueLine("position_us", << "4", "9", "9", "9", "0", "0", "0" >>),
      KeyValueLine("position_us", << "5", "0", "0", "0", "0", "0", "0" >>),
      KeyValueLine("position_us", << "6", "0", "0", "0", "0", "0", "0" >>),
      KeyValueLine("position_us", << "1", "0", "0", "0", "0", "0", "0", "0" >>),
      KeyValueLine("position_us", << "1", "2", "0", "0", "0", "0", "0", "0" >>) }

SelectLines ==
    PositionLines \cup { BeginLine, EndLine, KeyValueLine("status", << "Playing" >>),
                         KeyValueLine("status", << "Paused" >>) }

\* lyrics.py in its loop with the lyrics of a track cached and on disk, fed
\* blocks that carry a status and a position
NextSelect == \E raw \in SelectLines : ReadLine(raw, "error", "none")

InitSelect ==
    /\ script = "lyrics"
    /\ pc = "loop"
    /\ \E lyrics \in SortedLyrics :
          cached_song_info = [ DefaultSongInfo EXCEPT
                                 !.title = << "a" >>, !.artist = << >>,
                                 !.playerctl_track_id = << >>,
                                 !.lyrics_file_path = get_lyrics_file_path(<< "a" >>, << >>),
                                 !.lyrics_parsed_content = lyrics ]
    /\ last_processed_playerctl_track_id_from_event = << >>
    /\ playerctl_process = "running"
    /\ is_parsing_metadata_block = FALSE
    /\ active_metadata_dict = EmptyDict
    /\ song_info_cache_file = save_song_info_cache(cached_song_info)
    /\ lyrics_files = save_lyrics_to_local_file(<< "a" >>, << >>, << "lrc" >>, << >>)
    /\ current_player_status_cache = << "stopped" >>
    /\ last_processed_mpris_track_id_global = None
    /\ last_known_art_url = None
    /\ last_track_id_file = NoFile
    /\ last_art_operation_timestamp = NeverOperated
    /\ art_completed_at = NeverOperated
    /\ art_tasks = NotFollowed
    /\ art_files = << >>
    /\ current_art = None
    /\ last_block = NoBlock
    /\ now = 0
    /\ alive = 1
    /\ turn = Idle("init")
    /\ received = NotKept
    /\ status_checks = NotCounted

SpecSelect == InitSelect /\ [][NextSelect]_vars

----------------------------------------------------------------------------
(* Properties *)

\* the session state is in its cleared form
IsCleared(info) ==
    /\ info.title = None /\ info.artist = None /\ info.playerctl_track_id = None
    /\ info.lyrics_parsed_content = << >> /\ info.qq_song_mid = None
    /\ info.lyrics_file_path = None /\ info.status = << "stopped" >>

\* the step recorded in t read a stop/absence line outside a block and returned normally
StopLineDelivered(t) ==
    /\ t.branch \in { "stop_line", "standalone" }
    /\ t.error = "none"
    /\ t.line = StopLine

(* C1: a stop/absence line delivered outside a block while a session is     *)
(* cached (lyrics.py: the cached status is not stopped or a title is cached;  *)
(* player.py: the status cache is not offline) clears the session state,      *)
(* writes it once and prints one offline snapshot; the same line delivered    *)
(* again right after changes neither the session state in memory nor the      *)
(* persisted document.                                                        *)
C1_StopLineIdempotence ==
    [][ /\ ( /\ script = "lyrics"
             /\ StopLineDelivered(turn')
             /\ cached_song_info.status # << "stopped" >> \/ Truthy(cached_song_info.title) )
           => /\ IsCleared(cached_song_info')
              /\ last_processed_playerctl_track_id_from_event' = None
              /\ song_info_cache_file'.exists
              /\ load_song_info_cache(song_info_cache_file').value = cached_song_info'
              /\ turn'.saves = 1
              /\ Len(turn'.snapshots) = 1
              /\ turn'.snapshots[1].class = << "offline" >>
        /\ ( /\ script = "player"
             /\ StopLineDelivered(turn')
             /\ current_player_status_cache # << "offline" >> )
           => /\ current_player_status_cache' = << "offline" >>
              /\ last_processed_mpris_track_id_global' = None
              /\ last_track_id_file'.exists = last_track_id_file.exists
              /\ last_track_id_file'.exists =>
                    /\ last_track_id_file'.json = "object"
                    /\ LoadLastTrackId(last_track_id_file').value = None
              /\ turn'.saves = IF last_track_id_file.exists THEN 1 ELSE 0
              /\ Len(turn'.snapshots) = 1
              /\ turn'.snapshots[1].class = << "offline" >>
        /\ ( StopLineDelivered(turn) /\ StopLineDelivered(turn') )
           => /\ cached_song_info' = cached_song_info
              /\ last_processed_playerctl_track_id_from_event'
                    = last_processed_playerctl_track_id_from_event
              /\ song_info_cache_file' = song_info_cache_file
              /\ player_state' = player_state
      ]_vars

\* the second of two stop lines in succession has been read, the first having cleared
C1_Witness ==
    /\ StopLineDelivered(turn)
    /\ turn.repeats = "stop_line"
    /\ turn.branch = "standalone"

\* the step recorded in t timed out, and its status check exited non-zero
NonZeroProbe(t) ==
    /\ t.probes = 1
    /\ t.probe.how = "exit"
    /\ t.probe.returncode # 0
    /\ t.error = "none"

(* C2: a read timeout whose status check exits non-zero while a session is   *)
(* cached clears the session state, writes it and prints one offline         *)
(* snapshot; a timeout with such a status check right after another one      *)
(* changes no state, writes nothing and prints nothing.                      *)
C2_ProbeExactlyOnce ==
    [][ /\ ( /\ script = "lyrics"
             /\ NonZeroProbe(turn')
             /\ cached_song_info.status # << "stopped" >> \/ Truthy(cached_song_info.title) )
           => /\ IsCleared(cached_song_info')
              /\ last_processed_playerctl_track_id_from_event' = None
              /\ song_info_cache_file'.exists
              /\ load_song_info_cache(song_info_cache_file').value = cached_song_info'
              /\ turn'.saves = 1
              /\ Len(turn'.snapshots) = 1
              /\ turn'.snapshots[1].class = << "offline" >>
        /\ ( /\ script = "player"
             /\ NonZeroProbe(turn')
             /\ current_player_status_cache # << "offline" >> )
           => /\ current_player_status_cache' = << "offline" >>
              /\ last_processed_mpris_track_id_global' = None
              /\ last_track_id_file'.exists = last_track_id_file.exists
              /\ last_track_id_file'.exists =>
                    /\ last_track_id_file'.json = "object"
                    /\ LoadLastTrackId(last_track_id_file').value = None
              /\ Len(turn'.snapshots) = 1
              /\ turn'.snapshots[1].class = << "offline" >>
        /\ ( NonZeroProbe(turn) /\ NonZeroProbe(turn') )
           => /\ UNCHANGED << lyrics_state, player_state, playerctl_process,
                              is_parsing_metadata_block, active_metadata_dict >>
              /\ turn'.saves = 0
              /\ turn'.snapshots = << >>
              /\ turn'.tasks = 0
      ]_vars

\* the second of two such timeouts in succession has happened, the first having cleared
C2_Witness ==
    /\ NonZeroProbe(turn)
    /\ turn.repeats = "probe_stopped"
    /\ turn.branch = "probe_stopped_known"


\* the step recorded in t was an iteration of the loop
LoopIteration(t) ==
    t.branch \notin { "init", "start", "restart", "cancel", "environment" }

(* C3: once the loop is entered it ends only by cancellation: no exception   *)
(* raised in an iteration (supervisor branch, line and block handling,       *)
(* status check, or the error handler itself) leaves the loop, and every     *)
(* iteration in which one was raised prints an error snapshot, leaves no     *)
(* subprocess tracked, waits the restart delay and goes on to the next       *)
(* iteration.                                                                *)
C3_ReactorNeverTerminates ==
    LoopIteration(turn) =>
       /\ turn.error # "escaped"
       /\ pc = "loop"
       /\ turn.error = "handled" =>
             /\ turn.snapshots # << >>
             /\ turn.snapshots[Len(turn.snapshots)].class = << "error" >>
             /\ playerctl_process = "None"
             /\ turn.slept = PLAYERCTL_RESTART_DELAY_SECONDS

\* an exception raised in an iteration was caught by the loop's handler, which restarted
C3_Handled ==
    /\ LoopIteration(turn)
    /\ turn.error = "handled"
    /\ turn.kills = 1
    /\ pc = "loop"


\* the step recorded in t read the end marker of a block and returned normally
BlockCompleted(t) == t.yielded /\ t.error = "none"

\* the line of a snapshot's tooltip that names the status
StatusLine(snapshot) == snapshot.tooltip[IF script = "lyrics" THEN 3 ELSE 2]

KeyOf(raw) == Strip(SubSeq(raw, 1, FirstColon(raw, 1) - 1))
ValueOf(raw) == Strip(SubSeq(raw, FirstColon(raw, 1) + 1, Len(raw)))

\* the last of the lines that carries key k
LastWith(lines, k) ==
    CHOOSE i \in 1..Len(lines) :
        /\ KeyOf(lines[i]) = k
        /\ \A j \in (i + 1)..Len(lines) : KeyOf(lines[j]) # k

\* whether dict d maps exactly the trimmed keys of the lines, each to the
\* value of the last line that carries it
LastWriteWins(d, lines) ==
    /\ DOMAIN d = { KeyOf(lines[i]) : i \in 1..Len(lines) }
    /\ \A k \in DOMAIN d : d[k] = ValueOf(lines[LastWith(lines, k)])

(* C5: while a block is open the accumulator maps each trimmed key of the    *)
(* key:value lines read since the begin marker to the value of the last line *)
(* carrying that key, and has no other key; the block handed over at the     *)
(* end marker is that mapping.                                               *)
C5_LastWriteWins ==
    /\ (pc = "loop" /\ is_parsing_metadata_block) => LastWriteWins(active_metadata_dict, received)
    /\ BlockCompleted(turn) =>
          \E d \in { [ k \in { KeyOf(received[i]) : i \in 1..Len(received) } |->
                         ValueOf(received[LastWith(received, k)]) ] } :
             /\ turn.block.title = DictGet(d, << "title" >>, << >>)
             /\ turn.block.artist = DictGet(d, << "artist" >>, << >>)

\* a block in which a key came three times, the last time with other whitespace, is open
C5_Witness ==
    /\ is_parsing_metadata_block
    /\ Len(received) = 3
    /\ \A i \in 1..3 : KeyOf(received[i]) = << "title" >>
    /\ received[3] # KeyValueLine("title", ValueOf(received[3]))
    /\ ValueOf(received[1]) # ValueOf(received[3])
    /\ active_metadata_dict[<< "title" >>] = << "b" >>


\* the identity of a session state: track id, title and artist, None read as empty
Identity(info) ==
    << OrEmpty(info.playerctl_track_id), OrEmpty(info.title), OrEmpty(info.artist) >>

\* the session state in memory is the saved one as startup loads it (lines 268-269)
SavedAndReloaded ==
    /\ script = "lyrics" /\ pc = "loop"
    /\ song_info_cache_file.exists /\ song_info_cache_file.json = "object"
    /\ \A k \in { "playerctl_track_id", "title", "artist" } :
          load_song_info_cache(song_info_cache_file).value[k] = cached_song_info[k]
    /\ last_processed_playerctl_track_id_from_event
          = load_song_info_cache(song_info_cache_file).value.playerctl_track_id

\* the step to the next state completes a block that carries the identity of the session state
SameIdentityBlock ==
    /\ BlockCompleted(turn')
    /\ << turn'.block.track_id, turn'.block.title, turn'.block.artist >> = Identity(cached_song_info)

(* C6: for every session state the reactor reaches, the cleared one          *)
(* included, once it is saved and loaded again as startup loads it, a block  *)
(* that carries the same track id, title and artist is not a track change.   *)
C6_RoundTrip ==
    [][ (SavedAndReloaded /\ SameIdentityBlock) => ~turn'.song_changed ]_vars

\* C6 for the session states that hold a track: there the round trip holds
C6_RoundTripOfTrack ==
    [][ (SavedAndReloaded /\ Truthy(cached_song_info.title) /\ SameIdentityBlock)
           => ~turn'.song_changed ]_vars

\* a block that carries the identity of the saved session state was read and was no track change
C6_TrackReloaded ==
    /\ script = "lyrics"
    /\ BlockCompleted(turn)
    /\ Truthy(turn.block.title)
    /\ << turn.block.track_id, turn.block.title, turn.block.artist >> = Identity(cached_song_info)
    /\ ~turn.song_changed /\ ~turn.resolved
    /\ song_info_cache_file.exists


\* the identity rule: the ids decide when both are there, title and artist otherwise
SameTrack(block, info) ==
    IF block.track_id # << >> /\ Truthy(info.playerctl_track_id)
    THEN block.track_id = info.playerctl_track_id
    ELSE /\ Lower(block.title) = Lower(OrEmpty(info.title))
         /\ Lower(block.artist) = Lower(OrEmpty(info.artist))

(* C7: a completed block is a track change exactly when it is not the same   *)
(* track as the stored identity, where it is the same track iff both track   *)
(* ids are non-empty and equal or, when the id of the block or the stored id *)
(* is empty, title and artist are equal up to case.                          *)
C7_IdentityRule ==
    [][ (script = "lyrics" /\ BlockCompleted(turn'))
           => (turn'.song_changed <=> ~SameTrack(turn'.block, cached_song_info)) ]_vars

\* the case of C7 in which a track is stored, exactly one of the two ids is
\* empty and title and artist are equal up to case: the rule says same track
C7_OneIdEmpty ==
    [][ ( /\ script = "lyrics" /\ BlockCompleted(turn')
          /\ Truthy(cached_song_info.title)
          /\ (turn'.block.track_id = << >>) # (cached_song_info.playerctl_track_id = << >>)
          /\ Lower(turn'.block.title) = Lower(cached_song_info.title)
          /\ Lower(turn'.block.artist) = Lower(OrEmpty(cached_song_info.artist)) )
           => ~turn'.song_changed ]_vars


\* the case of C7 in which both ids are non-empty and differ: the rule says track change
C7_IdsDiffer ==
    [][ ( /\ script = "lyrics" /\ BlockCompleted(turn')
          /\ turn'.block.track_id # << >>
          /\ Truthy(cached_song_info.playerctl_track_id)
          /\ turn'.block.track_id # cached_song_info.playerctl_track_id )
           => turn'.song_changed ]_vars


\* the fields of the session state that lyric resolution writes
ResolutionFields ==
    { "title", "artist", "playerctl_track_id", "lyrics_parsed_content", "qq_song_mid",
      "lyrics_file_path", "last_fetched_timestamp" }

\* whether resolution is due for the block that the step to the next state completes
ResolutionDue ==
    /\ turn'.block.title # << >>
    /\ \/ turn'.song_changed
       \/ cached_song_info.lyrics_parsed_content = << >>
       \/ cached_song_info.lyrics_file_path = None
       \/ cached_song_info.lyrics_file_path \notin DOMAIN lyrics_files
       \/ now - cached_song_info.last_fetched_timestamp > 3600

Reached(lyrics, position_ms) == { i \in 1..Len(lyrics) : lyrics[i][1] <= position_ms }

\* the last place of a non-empty set of places
LastOf(places) == CHOOSE i \in places : \A j \in places : j <= i

\* the text of the line at place i, empty past the end of the list
TextAt(lyrics, i) == IF i <= Len(lyrics) THEN lyrics[i][2] ELSE << >>

(* C9: a block whose status is playing or paused, shown with a non-empty     *)
(* lyric list sorted by timestamp: the current line is the last one whose    *)
(* timestamp is not after the position and the next line is the one that     *)
(* follows it, empty when the current line is the last of the list; when the *)
(* position is before every timestamp the current line is the first and the  *)
(* next line the second.                                                     *)
C9_LyricLineSelection ==
    ( /\ script = "lyrics" /\ BlockCompleted(turn)
      /\ turn.block.status \in { << "playing" >>, << "paused" >> }
      /\ cached_song_info.lyrics_parsed_content # << >> )
    => \E lyrics \in { cached_song_info.lyrics_parsed_content } :
          \E reached \in { Reached(lyrics, turn.block.position_ms) } :
             \E i \in { IF reached = { } THEN 1 ELSE LastOf(reached) } :
                /\ turn.current_lyric_line = TextAt(lyrics, i)
                /\ turn.next_lyric_line = TextAt(lyrics, i + 1)

\* the position is at the timestamp shared by the last two of three lines: the last is current
C9_Witness ==
    /\ script = "lyrics" /\ BlockCompleted(turn)
    /\ turn.block.status = << "paused" >>
    /\ Len(cached_song_info.lyrics_parsed_content) = 3
    /\ cached_song_info.lyrics_parsed_content[2][1] = 5000
    /\ cached_song_info.lyrics_parsed_content[3][1] = 5000
    /\ turn.block.position_ms = 5000
    /\ turn.current_lyric_line = << "line", "3" >>
    /\ turn.next_lyric_line = << >>


\* (a) the iteration recorded in t took one line from the subprocess and gave it to the parser
ConsumedLine(t) ==
    /\ t.lines = 1 /\ t.probes = 0 /\ t.launches = 0
    /\ t.branch \in { "blank", "begin", "block", "end_without_block", "pair", "malformed",
                      "stop_line", "standalone", "decode_error" }

\* (b) it timed out waiting for a line and ran one status check
TimedOutAndProbed(t) ==
    /\ t.lines = 0 /\ t.probes = 1 /\ t.launches = 0
    /\ t.branch \in { "probe_error", "probe_error_known", "probe_timeout", "probe_timeout_known",
                      "probe_stopped", "probe_stopped_known", "probe_active" }

\* (c) it found no live subprocess and went through the supervisor's restart
Supervised(t) ==
    /\ t.lines = 0 /\ t.probes = 0 /\ t.launches = 1
    /\ t.branch = "supervisor"

\* it read end of file: no line, no status check, no restart; the subprocess is untracked
ReadEndOfFile(t) ==
    /\ t.lines = 0 /\ t.probes = 0 /\ t.launches = 0
    /\ t.branch = "eof"
    /\ playerctl_process = "None"
    /\ ~is_parsing_metadata_block /\ active_metadata_dict = EmptyDict

(* C10 as stated, for the iterations in which no exception is raised: every *)
(* iteration of the loop does exactly one of (a), (b) and (c).               *)
C10_OneOfThree ==
    (LoopIteration(turn) /\ turn.error = "none") =>
       \/ ConsumedLine(turn) /\ ~TimedOutAndProbed(turn) /\ ~Supervised(turn)
       \/ ~ConsumedLine(turn) /\ TimedOutAndProbed(turn) /\ ~Supervised(turn)
       \/ ~ConsumedLine(turn) /\ ~TimedOutAndProbed(turn) /\ Supervised(turn)

(* C10 amended: every iteration in which no exception is raised does exactly *)
(* one of (a), (b), (c) and (d), where (d) is reading end of file, which     *)
(* untracks the subprocess and resets the parser and leaves the restart to   *)
(* the supervisor of the next iteration; an iteration in which an exception  *)
(* is raised has taken at most one line, run at most one status check and    *)
(* started the subprocess at most once, never two of these.                  *)
C10_OneOfFour ==
    LoopIteration(turn) =>
       /\ turn.error = "none" =>
             /\ pc = "loop"
             /\ Cardinality({ k \in { "a", "b", "c", "d" } :
                                \/ k = "a" /\ ConsumedLine(turn)
                                \/ k = "b" /\ TimedOutAndProbed(turn)
                                \/ k = "c" /\ Supervised(turn)
                                \/ k = "d" /\ ReadEndOfFile(turn) }) = 1
       /\ turn.error # "none" => turn.lines + turn.probes + turn.launches <= 1

\* end of file was read: the iteration did none of (a), (b) and (c) and the loop goes on
C10_Witness ==
    /\ LoopIteration(turn)
    /\ ReadEndOfFile(turn)
    /\ turn.line = << >>
    /\ turn.error = "none"
    /\ ~ConsumedLine(turn) /\ ~TimedOutAndProbed(turn) /\ ~Supervised(turn)
    /\ pc = "loop"


(* C11: at every moment at most one subprocess started by the run is alive,  *)
(* and it is the one the loop tracks; a subprocess is started only when none *)
(* is alive, the one tracked before having exited, been waited for or been   *)
(* killed (end of file, the supervisor's restart, the exception handler, the *)
(* broken-pipe handler).                                                     *)
C11_AtMostOneSubprocess ==
    /\ [](alive \in { 0, 1 } /\ (alive = 1 <=> playerctl_process = "running"))
    /\ [][turn'.started = 1 => alive = 0]_vars

\* lyrics.py has started a second subprocess from the supervisor branch, and it is the only one alive
C11_Witness ==
    /\ script = "lyrics"
    /\ turn.branch = "supervisor"
    /\ turn.started = 1
    /\ alive = 1
    /\ playerctl_process = "running"


\* the iteration recorded in t went through the supervisor branch and returned normally
SupervisorRan(t) == t.branch = "supervisor" /\ t.error = "none"

\* the snapshot with which the supervisor says that the subprocess is gone
IsDisconnectedSnapshot(snapshot) ==
    /\ snapshot.class = << "offline" >>
    /\ snapshot.text = IF script = "lyrics" THEN << "Player Disconnected" >>
                       ELSE NormalizeSpaces(Icon(ICON_STOP) \o << "Player", " ", "Disconnected" >>)

FirstLaunchNotFound(t) ==
    t.branch = "start" /\ t.launch = "not_found" /\ t.error = "none"

(* C13: when the executable is not found on the first launch of a run, one   *)
(* error snapshot is printed and the run stops: the loop with its supervisor *)
(* branch is not entered and no subprocess is tracked.                       *)
C13_FirstLaunchNotFoundIsTerminal ==
    FirstLaunchNotFound(turn) =>
       /\ pc = "returned"
       /\ Len(turn.snapshots) = 1
       /\ turn.snapshots[1].class = << "error" >>
       /\ playerctl_process = "None"

\* C13 for lyrics.py alone: there the run stops
C13_TerminalInLyrics ==
    (script = "lyrics" /\ FirstLaunchNotFound(turn)) =>
       /\ pc = "returned"
       /\ Len(turn.snapshots) = 1
       /\ turn.snapshots[1].class = << "error" >>
       /\ playerctl_process = "None"

\* lyrics.py did not find the executable on its first launch and returned
C13_LyricsReturned ==
    /\ script = "lyrics"
    /\ FirstLaunchNotFound(turn)
    /\ pc = "returned"


\* the iteration recorded in t tried to start the subprocess again, and the attempt failed
RelaunchFailed(t) ==
    t.branch = "supervisor" /\ t.launch \in { "not_found", "spawn_error" }

(* C14: a relaunch that fails, for a missing executable or any other error,  *)
(* does not end the run: the iteration raises nothing, no subprocess is      *)
(* tracked, the failure delay is waited after the restart delay, and the     *)
(* loop goes on, so that the next iteration is the supervisor's again.       *)
C14_FailedRelaunchNeverCrashes ==
    RelaunchFailed(turn) =>
       /\ turn.error = "none"
       /\ pc = "loop"
       /\ playerctl_process = "None"
       /\ turn.order[Len(turn.order)] = "failure_delay"
       /\ turn.slept = PLAYERCTL_RESTART_DELAY_SECONDS + PLAYERCTL_RESTART_FAILURE_DELAY_SECONDS

\* C14 for lyrics.py alone: there a failed relaunch raises nothing
C14_NeverCrashesInLyrics ==
    (script = "lyrics" /\ RelaunchFailed(turn)) =>
       /\ turn.error = "none"
       /\ pc = "loop"
       /\ playerctl_process = "None"
       /\ turn.order[Len(turn.order)] = "failure_delay"
       /\ turn.slept = PLAYERCTL_RESTART_DELAY_SECONDS + PLAYERCTL_RESTART_FAILURE_DELAY_SECONDS

\* C14, second half, where nothing but launches goes wrong (SpecRelaunch): a
\* loop without a live subprocess comes to hold one again and can read from it
C14_EventuallyRunning ==
    (pc = "loop" /\ playerctl_process # "running")
       ~> (pc = "loop" /\ playerctl_process = "running" /\ alive = 1)

\* a relaunch failed, the failure delay was waited and the loop goes on without a subprocess
C14_Retrying ==
    /\ RelaunchFailed(turn)
    /\ turn.launch = "spawn_error"
    /\ turn.error = "none"
    /\ pc = "loop"
    /\ playerctl_process = "None"


\* the text the status check printed, as the code compares it
ProbeText(probe) == Lower(Strip(probe.stdout))

\* the step recorded in t timed out, and its status check exited zero with text
\* that is neither "stopped" nor one of the absence phrases
ProbeSawPlayer(t) ==
    /\ t.probes = 1
    /\ t.probe.how = "exit"
    /\ t.probe.returncode = 0
    /\ \A i \in 1..Len(t.probe.stdout) : t.probe.stdout[i] # UndecodableByte
    /\ ProbeText(t.probe) # << "stopped" >>
    /\ ~Contains(ProbeText(t.probe), << "no", " ", "player", " ", "is", " ", "running" >>)
    /\ ~Contains(ProbeText(t.probe), << "no", " ", "players", " ", "found" >>)

(* C15: a read timeout whose status check exits zero with output that is     *)
(* neither "stopped" nor an absence phrase changes nothing: the session      *)
(* state, the cached status, the last track id, the parser and the files are *)
(* as before, nothing is written and no snapshot is printed.                 *)
C15_ActiveProbeChangesNothing ==
    [][ ProbeSawPlayer(turn') =>
          /\ UNCHANGED << lyrics_state, player_state, playerctl_process,
                          is_parsing_metadata_block, active_metadata_dict, alive >>
          /\ turn'.saves = 0
          /\ turn'.snapshots = << >>
          /\ turn'.tasks = 0
          /\ turn'.error = "none"
          /\ pc' = "loop"
      ]_vars

\* lyrics.py, with a track cached and playing, timed out and its status check said Playing
C15_Witness ==
    /\ script = "lyrics"
    /\ ProbeSawPlayer(turn)
    /\ Truthy(cached_song_info.title)
    /\ cached_song_info.status = << "playing" >>


\* the step recorded in t timed out, its status check exceeded its own wait, and nothing was raised
ProbeTimedOut(t) ==
    /\ t.probes = 1
    /\ t.probe.how = "timeout"
    /\ t.error = "none"

(* C16 as stated: whenever the status check exceeds its wait, the session    *)
(* state is cleared and one error-class snapshot is printed.                 *)
C16_ProbeTimeoutClears ==
    ProbeTimedOut(turn) =>
       /\ Len(turn.snapshots) = 1
       /\ turn.snapshots[1].class = << "error" >>
       /\ script = "lyrics" => IsCleared(cached_song_info)
       /\ script = "player" => last_processed_mpris_track_id_global = None

(* C16 amended: when the status check exceeds its wait while a session is    *)
(* cached (lyrics.py: the cached status is not stopped or a title is cached; *)
(* player.py: the cached status is not error), the session state is cleared  *)
(* and written and one error-class snapshot is printed; otherwise nothing    *)
(* changes, nothing is written and nothing is printed.                       *)
C16_ProbeTimeoutClearsSession ==
    [][ ProbeTimedOut(turn') =>
          /\ ( script = "lyrics" /\ HasActiveSession(cached_song_info) )
               => /\ IsCleared(cached_song_info')
                  /\ last_processed_playerctl_track_id_from_event' = None
                  /\ song_info_cache_file'.exists
                  /\ load_song_info_cache(song_info_cache_file').value = cached_song_info'
                  /\ turn'.saves = 1
                  /\ Len(turn'.snapshots) = 1
                  /\ turn'.snapshots[1].class = << "error" >>
          /\ ( script = "player" /\ current_player_status_cache # << "error" >> )
               => /\ current_player_status_cache' = << "error" >>
                  /\ last_processed_mpris_track_id_global' = None
                  /\ last_track_id_file'.exists = last_track_id_file.exists
                  /\ last_track_id_file'.exists =>
                        LoadLastTrackId(last_track_id_file').value = None
                  /\ turn'.tasks = 1
                  /\ Len(turn'.snapshots) = 1
                  /\ turn'.snapshots[1].class = << "error" >>
          /\ ( \/ script = "lyrics" /\ ~HasActiveSession(cached_song_info)
               \/ script = "player" /\ current_player_status_cache = << "error" >> )
               => /\ UNCHANGED << lyrics_state, player_state >>
                  /\ turn'.saves = 0
                  /\ turn'.snapshots = << >>
                  /\ turn'.tasks = 0
      ]_vars

\* lyrics.py, with a track cached, had its status check time out: the session was cleared
C16_Witness ==
    /\ script = "lyrics"
    /\ ProbeTimedOut(turn)
    /\ turn.branch = "probe_timeout"
    /\ turn.saves = 1
    /\ IsCleared(cached_song_info)
    /\ cached_song_info.last_fetched_timestamp = 0


\* the step recorded in t timed out, an exception other than the status check's
\* own timeout was raised in the status check (the spawn failed, its output
\* could not be decoded, or printing inside it failed), and the loop went on
ProbeRaised(t) ==
    /\ t.probes = 1
    /\ t.error # "escaped"
    /\ \/ t.probe.how = "spawn_error"
       \/ (t.probe.how = "exit"
             /\ \E i \in 1..Len(t.probe.stdout) : t.probe.stdout[i] = UndecodableByte)
       \/ t.branch = "probe_print_error"

C17_PrintFailureSwallowed ==
    /\ script = "player"
    /\ turn.branch = "probe_print_error"


\* the fields of the session state other than the status
PersistedFields == SongInfoKeys \ { "status" }

\* the session document read back agrees with info on every field but the status
PersistedAs(file, info) ==
    \A k \in PersistedFields : load_song_info_cache(file).value[k] = info[k]

(* C18: while lyrics.py is in its loop, waiting for the next line, the       *)
(* session document read back equals the session state in memory on every    *)
(* field other than status; a step of the loop that changes one of these     *)
(* fields writes the document in the same step, and the status-only updates  *)
(* (the status of a block that is not resolved, the supervisor's stopped)    *)
(* write nothing.                                                            *)
C18_PersistenceConsistency ==
    /\ []( (script = "lyrics" /\ pc = "loop")
             => PersistedAs(song_info_cache_file, cached_song_info) )
    /\ [][ (script = "lyrics" /\ pc = "loop" /\ pc' = "loop") =>
             /\ (\E k \in PersistedFields : cached_song_info'[k] # cached_song_info[k])
                  => /\ turn'.saves = 1
                     /\ song_info_cache_file' = save_song_info_cache(cached_song_info')
             /\ ( \/ turn'.branch = "supervisor"
                  \/ (turn'.branch = "block" /\ ~turn'.resolved) )
                  => /\ turn'.saves = 0
                     /\ song_info_cache_file' = song_info_cache_file
                     /\ \A k \in PersistedFields : cached_song_info'[k] = cached_song_info[k]
       ]_vars

\* a track is cached and saved, and the status in memory is no longer the one in the document
C18_Witness ==
    /\ script = "lyrics"
    /\ pc = "loop"
    /\ Truthy(cached_song_info.title)
    /\ cached_song_info.lyrics_parsed_content # << >>
    /\ song_info_cache_file.exists
    /\ load_song_info_cache(song_info_cache_file).value.status # cached_song_info.status
    /\ turn.branch = "supervisor"


(* C19: the clock of the model only goes forward; within a run of lyrics.py  *)
(* no step of the loop (a block, a stop line, a status check, a restart of   *)
(* the subprocess, a handled error) lowers last_fetched_timestamp, and the   *)
(* value never lies ahead of the clock.                                      *)
C19_FetchTimeNeverDecreases ==
    /\ [][now' >= now]_vars
    /\ [][ (script = "lyrics" /\ pc = "loop" /\ pc' = "loop") =>
             cached_song_info'.last_fetched_timestamp
                 >= cached_song_info.last_fetched_timestamp ]_vars
    /\ [](script = "lyrics" => cached_song_info.last_fetched_timestamp <= now)

\* a stop line or a status check has cleared a session that was fetched after
\* the clock had advanced, and the fetch time is still there
C19_Witness ==
    /\ script = "lyrics"
    /\ pc = "loop"
    /\ turn.saves = 1
    /\ turn.branch # "block"
    /\ ~Truthy(cached_song_info.title)
    /\ cached_song_info.last_fetched_timestamp > 0
    /\ now > cached_song_info.last_fetched_timestamp


\* the step is the end of a block, read without a fault, in which the lookup
\* was called and failed
LookupFailed ==
    /\ turn'.looked_up
    /\ \E api \in LookupFailures : ReadLine(EndLine, api, "none")

(* C20: every way the lookup of lyrics.py fails gives ([], None, None); in   *)
(* a block whose lookup failed no exception reaches the loop's handler, the  *)
(* subprocess is neither killed nor started again, the session is saved      *)
(* without lyrics, and the block's snapshot is printed with the placeholder  *)
(* text: "title - artist" while playing or paused, else "No Media Playing".  *)
C20_LookupFailureIsNoError ==
    /\ [](\A api \in LookupFailures :
            fetch_lyrics_from_qqmusic_api(<< "a" >>, << "x" >>, api) = NoLyrics)
    /\ [][ LookupFailed =>
             /\ turn'.error = "none"
             /\ pc' = "loop"
             /\ playerctl_process' = "running"
             /\ turn'.kills = 0 /\ turn'.started = 0 /\ turn'.slept = 0
             /\ turn'.resolved /\ turn'.saves = 1
             /\ cached_song_info'.lyrics_parsed_content = << >>
             /\ cached_song_info'.qq_song_mid = None
             /\ Len(turn'.snapshots) = 1
             /\ turn'.snapshots[1].class # << "error" >>
             /\ turn'.snapshots[1].text
                  = IF cached_song_info'.status \in { << "playing" >>, << "paused" >> }
                    THEN cached_song_info'.title \o << " ", "-", " " >> \o cached_song_info'.artist
                    ELSE << "No Media Playing" >>
       ]_vars

\* a block of a playing track whose lookup found nothing has been shown
C20_Witness ==
    /\ script = "lyrics"
    /\ pc = "loop"
    /\ turn.branch = "block"
    /\ turn.looked_up
    /\ cached_song_info.lyrics_parsed_content = << >>
    /\ cached_song_info.qq_song_mid = None
    /\ cached_song_info.status = << "playing" >>
    /\ Len(turn.snapshots) = 1
    /\ turn.snapshots[1].text = << "a", " ", "-", " " >>
    /\ turn.error = "none"


\* the document of the lyrics directory for the block of the step, before the step
BlockDocumentPath == get_lyrics_file_path(turn'.block.title, turn'.block.artist)

\* the step is a block of lyrics.py in which the lyrics are resolved while
\* the document of its title and artist is present
ResolvedWithDocument ==
    /\ script = "lyrics"
    /\ turn'.branch = "block"
    /\ turn'.resolved
    /\ BlockDocumentPath \in DOMAIN lyrics_files

(* C21: whenever lyrics.py resolves the lyrics of a block whose document is  *)
(* present in the lyrics directory, the lyrics stored are the parsed         *)
(* document and the lookup service is not called, whatever the document      *)
(* holds.                                                                    *)
C21_DocumentPreventsLookup ==
    [][ ResolvedWithDocument =>
          /\ ~turn'.looked_up
          /\ cached_song_info'.lyrics_parsed_content
               = parse_lrc(lyrics_files[BlockDocumentPath])
          /\ cached_song_info'.lyrics_file_path = BlockDocumentPath ]_vars

\* the same for a document that holds at least one timed line
C21_TimedDocumentPreventsLookup ==
    [][ (ResolvedWithDocument /\ parse_lrc(lyrics_files[BlockDocumentPath]) # << >>) =>
          /\ ~turn'.looked_up
          /\ cached_song_info'.lyrics_parsed_content
               = parse_lrc(lyrics_files[BlockDocumentPath])
          /\ cached_song_info'.lyrics_file_path = BlockDocumentPath
          /\ lyrics_files' = lyrics_files ]_vars

\* the lyrics of a block were resolved from an empty document: the lookup
\* service was called and the document written again
C21_EmptyDocumentLookedUp ==
    /\ script = "lyrics"
    /\ turn.branch = "block"
    /\ turn.resolved
    /\ turn.looked_up
    /\ cached_song_info.lyrics_parsed_content # << >>
    /\ cached_song_info.qq_song_mid # None


\* what the statement asks of load_song_info_cache for the file given
LoadsWithoutRaising(file) ==
    LET loaded == load_song_info_cache(file)
    IN  /\ ~loaded.raised
        /\ file.json # "object" => loaded.value = DefaultSongInfo
        /\ (file.exists /\ file.json # "object") => ~loaded.file.exists
        /\ file.json = "object" =>
              /\ loaded.file = file
              /\ \A k \in SongInfoKeys :
                    loaded.value[k] = IF k \in DOMAIN file.value
                                      THEN PythonValue(file.value[k])
                                      ELSE DefaultSongInfo[k]

(* C22: load_song_info_cache of lyrics.py never raises: for a session file   *)
(* that is absent, is not JSON, or is JSON but no object it returns the      *)
(* defaults (and the corrupt file is removed); for an object the keys that   *)
(* are missing take their defaults.                                          *)
C22_LoadNeverRaises ==
    script = "lyrics" => LoadsWithoutRaising(song_info_cache_file)

\* the same for every session file but valid JSON that is no object
C22_LoadRaisesOnlyOnNonObject ==
    (script = "lyrics" /\ song_info_cache_file.json # "array")
        => LoadsWithoutRaising(song_info_cache_file)

\* lyrics.py was started on a session file holding a JSON array and the
\* TypeError of line 228 ended it; the file is still there
C22_StartCrashed ==
    /\ script = "lyrics"
    /\ pc = "crashed"
    /\ turn.error = "escaped"
    /\ turn.branch = "start"
    /\ turn.launch = "ok"
    /\ song_info_cache_file.exists
    /\ song_info_cache_file.json = "array"

----------------------------------------------------------------------------
(* C23: the link of the current art follows the playing track *)

\* the file of the track of the block processed last
LastBlockArt == ArtFileName(last_block.title, last_block.artist)

(* C23: once every process_album_art task has finished, the link of the      *)
(* current art is absent or targets the file of the track of the block       *)
(* processed last, never the file of an earlier track.                       *)
C23_PointerFollowsTrack ==
    (script = "player" /\ art_tasks = << >> /\ last_block # NoBlock /\ current_art # None)
        => current_art = LastBlockArt

\* C23: a download for an earlier track ended last and left the link on that track
C23_LateFetchRepointed ==
    /\ script = "player"
    /\ art_tasks = << >>
    /\ turn.branch = "art"
    /\ turn.art.did = "fetched"
    /\ current_art = turn.art.name
    /\ current_art # LastBlockArt
    /\ ArtFileExists(art_files, LastBlockArt)

----------------------------------------------------------------------------
(* C24: the decision to fetch the art *)

\* process_album_art has just run from its start with a URL, and the cooldown did not stop it
ArtDecided ==
    /\ script = "player"
    /\ turn.branch = "art"
    /\ turn.art.did \in { "up_to_date", "reused", "fetch_started", "fetch_failed" }
    /\ turn.art.task.at = "created"
    /\ Truthy(turn.art.task.art_url_param)

\* it went on without fetching
ArtFetchSkipped == turn.art.did \in { "up_to_date", "reused" }

\* the block that created the task was for the track of the block before it
ArtSameTrack == turn.art.task.current_mpris_track_id = turn.art.task.was_id

(* C24: process_album_art run with a URL skips the fetch iff the file is in  *)
(* the cache and the track changed since the block before, or the URL is     *)
(* the one recorded for the same track; so for the same track, a file in     *)
(* the cache and another URL it fetches again.                               *)
C24_FetchDecision ==
    ArtDecided =>
        (ArtFetchSkipped <=>
            /\ turn.art.file_before
            /\ \/ ~ArtSameTrack
               \/ turn.art.task.art_url_param = turn.art.task.was_url)

\* C24: what the code does when one task runs at a time: a file in the cache is never fetched again
C24_CachedFileNeverFetchedAgain ==
    ArtDecided => (ArtFetchSkipped <=> turn.art.file_before)

\* C24: the same track came with another URL, its file was in the cache, and no fetch was made
C24_NewUrlNotFetched ==
    /\ ArtDecided
    /\ ArtFetchSkipped
    /\ ArtSameTrack
    /\ turn.art.file_before
    /\ Truthy(turn.art.task.was_url)
    /\ turn.art.task.art_url_param # turn.art.task.was_url

----------------------------------------------------------------------------
(* C25: process_album_art without a URL *)

\* process_album_art has just run from its start without a URL
ArtRanWithoutUrl ==
    /\ script = "player"
    /\ turn.branch = "art"
    /\ turn.art.did # "nothing"
    /\ turn.art.task.at = "created"
    /\ ~Truthy(turn.art.task.art_url_param)

(* C25: process_album_art called without a URL leaves no link of the         *)
(* current art, whatever the cooldown and whether or not the track's file    *)
(* is in the cache.                                                          *)
C25_NoUrlRemovesPointer ==
    ArtRanWithoutUrl => current_art = None

\* C25: in the cooldown, without the track's file, the link of the track before was kept
C25_CooldownKeptPointer ==
    /\ ArtRanWithoutUrl
    /\ turn.art.did = "cooldown"
    /\ ~turn.art.file_before
    /\ current_art # None
    /\ current_art # turn.art.name

\* C25: with the track's file linked and no URL recorded, the link was kept
C25_UpToDateKeptPointer ==
    /\ ArtRanWithoutUrl
    /\ turn.art.did = "up_to_date"
    /\ current_art = turn.art.name

\* C25: outside those two returns the link is removed
C25_NoUrlRemovesPointerOtherwise ==
    (ArtRanWithoutUrl /\ turn.art.did \notin { "cooldown", "up_to_date" }) => current_art = None

\* C25: the link was there and process_album_art without a URL removed it
C25_PointerRemoved ==
    /\ ArtRanWithoutUrl
    /\ turn.art.did = "no_url"
    /\ turn.art.link_before # None
    /\ current_art = None

----------------------------------------------------------------------------
(* C26: the cooldown of process_album_art *)

\* process_album_art has just run from its start and passed the returns of lines 131-155
ArtReachedCooldownTest ==
    /\ script = "player"
    /\ turn.branch = "art"
    /\ turn.art.did \notin { "nothing", "no_metadata", "up_to_date" }
    /\ turn.art.task.at = "created"

\* less than the cooldown window has gone by since the last operation that completed
ArtInCooldownWindow == turn.art.since_completed < ART_UPDATE_COOLDOWN_SECONDS

(* C26: process_album_art returns on account of the cooldown only when less  *)
(* than the window has gone by since the last completed operation and the    *)
(* track's file is not in the cache; when the file is there or the window    *)
(* has gone by, it goes on to the link.                                      *)
C26_CooldownStopsOnlyWithoutFile ==
    ArtReachedCooldownTest =>
        /\ turn.art.did = "cooldown" => (ArtInCooldownWindow /\ ~turn.art.file_before)
        /\ (turn.art.file_before \/ ~ArtInCooldownWindow) =>
               turn.art.did \in { "no_url", "reused", "fetch_started", "fetch_failed" }

\* C26: the cooldown stopped a task whose file was not in the cache
C26_CooldownStopped ==
    /\ ArtReachedCooldownTest
    /\ turn.art.did = "cooldown"
    /\ ArtInCooldownWindow
    /\ ~turn.art.file_before

\* C26: inside the window, with the file in the cache, the task went on to the link
C26_WentOnInsideWindow ==
    /\ ArtReachedCooldownTest
    /\ turn.art.in_window
    /\ turn.art.file_before
    /\ turn.art.did = "reused"

----------------------------------------------------------------------------
(* C27: what process_album_art leaves behind *)

\* process_album_art has just reached its end at line 235
ArtOperationEnded ==
    /\ script = "player"
    /\ turn.branch = "art"
    /\ turn.art.did \in ArtCompleted

\* after a fetch that failed: no file of the track, no link, and the task ended normally
ArtFailureCleanedUp ==
    turn.art.did = "fetch_failed" =>
        /\ ~turn.art.fetch_success
        /\ ~ArtFileExists(art_files, turn.art.name)
        /\ current_art = None
        /\ turn.error = "none"

(* C27 as stated: after a fetch that succeeded or a reuse of the cache the   *)
(* link is there and targets the track's file; after a fetch that failed     *)
(* the file is removed, the link is not there and nothing is raised.         *)
C27_SuccessAlwaysLinks ==
    ArtOperationEnded =>
        /\ turn.art.did \in { "fetched", "reused" } =>
               (current_art = turn.art.name /\ CurrentArtExists(art_files, current_art))
        /\ ArtFailureCleanedUp

(* C27: after a fetch that succeeded or a reuse of the cache the link        *)
(* targets the track's file when that file is not empty, and is not there    *)
(* when the file has size 0; after a fetch that failed the file is removed,  *)
(* the link is not there and nothing is raised.                              *)
C27_WorkerOutcome ==
    ArtOperationEnded =>
        /\ turn.art.did \in { "fetched", "reused" } =>
               /\ turn.art.fetch_success
               /\ ArtFileExists(art_files, turn.art.name)
               /\ IF art_files[turn.art.name] = "empty" THEN current_art = None
                  ELSE current_art = turn.art.name /\ CurrentArtExists(art_files, current_art)
        /\ ArtFailureCleanedUp

\* C27: a download gave a file of size 0 and no link was made
C27_EmptyFileNotLinked ==
    /\ ArtOperationEnded
    /\ turn.art.did = "fetched"
    /\ art_files[turn.art.name] = "empty"
    /\ current_art = None

\* C27: a download gave an image and the link targets it
C27_FetchedAndLinked ==
    /\ ArtOperationEnded
    /\ turn.art.did = "fetched"
    /\ current_art = turn.art.name
    /\ art_files[current_art] = "image"

\* C27: a fetch failed while the link was on another track's file, and the link was removed
C27_FailureRemovedPointer ==
    /\ ArtOperationEnded
    /\ turn.art.did = "fetch_failed"
    /\ turn.art.link_before # None
    /\ current_art = None

----------------------------------------------------------------------------
(* C28: the art work is detached from the reactor *)

\* a download of process_album_art is in flight
ArtFetchInFlight ==
    /\ script = "player"
    /\ ArtFollowed
    /\ \E i \in 1..Len(art_tasks) : art_tasks[i].at = "fetching"

\* a step of the reactor: any step of player.py that is not a step of an art task
ReactorStep == script = "player" /\ ArtFollowed /\ turn'.branch # "art"

----------------------------------------------------------------------------
(* C29: the session state survives the loss of the subprocess *)

\* a step of lyrics.py in which the subprocess exits, its stream ends, or the supervisor restarts it
SubprocessLostOrRestarted ==
    /\ turn'.branch \in { "environment", "eof", "supervisor" }
    /\ turn'.error = "none"
    /\ script = "lyrics"

C29_StreamEndedWithSession ==
    /\ script = "lyrics"
    /\ turn.branch = "eof"
    /\ playerctl_process = "None"
    /\ Truthy(cached_song_info.title)
    /\ cached_song_info.status = << "playing" >>

----------------------------------------------------------------------------
(* C30: the file names the sanitizers make *)

\* the script has just made the file name of a title
SanitizeApplied == turn.branch = "sanitize"

\* what is left of `name` before the fallbacks: lyrics.py 84-86, player.py 102-104
SanitizedText(name) ==
    IF script = "lyrics" THEN Strip(CollapseWhitespace(ReplaceAndDelete(name)))
    ELSE StripFill(CollapseUnderscores(ReplaceForbidden(name)))

\* the short digest of the original input
DigestOfInput(name) ==
    IF script = "lyrics" THEN Sha1Prefix(name) ELSE Sha1Prefix16(name)

\* the name the script uses when it has nothing else
Placeholder == IF script = "lyrics" THEN << "_empty_title_" >> ELSE << "_empty_metadata_" >>

\* no control character and none of < > : " / \ | ? * is in the result
NoForbiddenCharacter(result) ==
    \A i \in 1..Len(result) : result[i] \notin PlayerForbiddenChars

(* C30: for every title that is not empty, the sanitized name has no         *)
(* forbidden character, is not empty, is the short digest of the original    *)
(* input when nothing is left of the title, and has at most 200 bytes.       *)
C30_SanitizedName ==
    SanitizeApplied =>
        /\ NoForbiddenCharacter(turn.result)
        /\ turn.result # << >>
        /\ SanitizedText(turn.name) = << >> => turn.result = DigestOfInput(turn.name)
        /\ Utf8Len(turn.result) <= byte_limit

\* C30: nothing was left of a title and the name is the placeholder, not a digest
C30_PlaceholderInsteadOfDigest ==
    /\ SanitizeApplied
    /\ turn.name # << >>
    /\ SanitizedText(turn.name) = << >>
    /\ turn.result = Placeholder

\* C30: lyrics.py left a control character in the name
C30_ControlCharacterKept ==
    /\ SanitizeApplied
    /\ script = "lyrics"
    /\ \E i \in 1..Len(turn.result) : turn.result[i] \in ControlChars

\* C30: what holds in both scripts: the name is not empty, has at most 200 bytes and is never a digest
C30_NotEmptyAndBounded ==
    SanitizeApplied =>
        /\ turn.result # << >>
        /\ Utf8Len(turn.result) <= byte_limit
        /\ turn.result # DigestOfInput(turn.name)
        /\ SanitizedText(turn.name) = << >> <=> turn.result = Placeholder

\* C30: what holds in player.py: no forbidden character is left
C30_PlayerNameIsClean ==
    (SanitizeApplied /\ script = "player") => NoForbiddenCharacter(turn.result)

\* C30: a title longer than 200 bytes was cut
C30_LongTitleCut ==
    /\ SanitizeApplied
    /\ Utf8Len(turn.name) > byte_limit
    /\ Utf8Len(turn.result) <= byte_limit
    /\ Utf8Len(turn.result) >= byte_limit - 2

----------------------------------------------------------------------------
(* C31: malformed input is dropped *)

\* a step of lyrics.py that read a line without a colon inside a block, or an end marker outside one
MalformedInputRead ==
    /\ turn'.branch \in { "malformed", "end_without_block" }
    /\ script = "lyrics"

(* C31: a line without a colon inside a block leaves the accumulator as it   *)
(* is and the parser inside the block; an end marker outside a block gives   *)
(* no block; both leave the session state and the files as they are, emit    *)
(* no snapshot, and the loop goes on to the next line.                       *)
C31_MalformedInputDropped ==
    [][ MalformedInputRead =>
           /\ turn'.branch = "malformed" => (is_parsing_metadata_block /\ FirstColon(Strip(turn'.line), 1) = 0)
           /\ turn'.branch = "end_without_block" =>
                 (~is_parsing_metadata_block /\ Strip(turn'.line) = PLAYERCTL_DATA_END_MARKER)
           /\ active_metadata_dict' = active_metadata_dict
           /\ is_parsing_metadata_block' = is_parsing_metadata_block
           /\ cached_song_info' = cached_song_info
           /\ last_processed_playerctl_track_id_from_event'
                 = last_processed_playerctl_track_id_from_event
           /\ song_info_cache_file' = song_info_cache_file
           /\ lyrics_files' = lyrics_files
           /\ turn'.snapshots = << >>
           /\ turn'.saves = 0
           /\ turn'.resolved = FALSE
           /\ turn'.error = "none"
           /\ playerctl_process' = playerctl_process
           /\ pc' = "loop" ]_vars

\* C31: a line without a colon was read inside a block that had read lines, which were kept
C31_MalformedLineDropped ==
    /\ script = "lyrics"
    /\ turn.branch = "malformed"
    /\ is_parsing_metadata_block
    /\ active_metadata_dict # EmptyDict
    /\ playerctl_process = "running"

\* C31: an end marker was read outside a block under a session with a track
C31_EndMarkerOutsideBlock ==
    /\ script = "lyrics"
    /\ turn.branch = "end_without_block"
    /\ ~is_parsing_metadata_block
    /\ Truthy(cached_song_info.title)

----------------------------------------------------------------------------
(* C32: the stop phrases count only outside a block *)

\* the line carries one of the phrases the script takes for "no player" or "stopped"
CarriesStopPhrase(raw) ==
    IF script = "lyrics" THEN IsStopLine(Lower(Strip(raw)))
    ELSE IsPlayerStopLine(Lower(Strip(raw)))

\* a step that read a line carrying a stop phrase while a block was open
StopPhraseReadInBlock ==
    /\ turn'.line # None
    /\ turn'.error = "none"
    /\ is_parsing_metadata_block
    /\ CarriesStopPhrase(turn'.line)

(* C32: the stop branch is taken only by a line read outside a block; a      *)
(* line read inside a block, whatever phrase it carries, is accumulated or   *)
(* dropped, and clears nothing and emits nothing.                            *)
C32_StopPhrasesOnlyOutsideBlock ==
    [][ /\ turn'.branch = "stop_line" => ~is_parsing_metadata_block
        /\ StopPhraseReadInBlock =>
              /\ turn'.branch \in { "pair", "malformed" }
              /\ is_parsing_metadata_block'
              /\ turn'.snapshots = << >>
              /\ turn'.saves = 0
              /\ turn'.tasks = 0
              /\ cached_song_info' = cached_song_info
              /\ last_processed_playerctl_track_id_from_event'
                    = last_processed_playerctl_track_id_from_event
              /\ song_info_cache_file' = song_info_cache_file
              /\ current_player_status_cache' = current_player_status_cache
              /\ last_processed_mpris_track_id_global' = last_processed_mpris_track_id_global
              /\ last_track_id_file' = last_track_id_file
              /\ \A k \in DOMAIN active_metadata_dict' :
                    \/ (k \in DOMAIN active_metadata_dict
                        /\ active_metadata_dict'[k] = active_metadata_dict[k])
                    \/ k = << "status" >> ]_vars

\* C32: lyrics.py read `status:Stopped` inside a block under a session with a track, and kept the session
C32_StoppedStatusAccumulated ==
    /\ script = "lyrics"
    /\ turn.branch = "pair"
    /\ turn.line = KeyValueLine("status", << "Stopped" >>)
    /\ is_parsing_metadata_block
    /\ active_metadata_dict[<< "status" >>] = << "Stopped" >>
    /\ Truthy(cached_song_info.title)
    /\ cached_song_info.status # << "stopped" >>

\* C32: player.py read "No players found" inside a block and stayed as it was
C32_NoPlayerLineInsideBlock ==
    /\ script = "player"
    /\ turn.branch = "malformed"
    /\ turn.line = StopLine
    /\ is_parsing_metadata_block
    /\ current_player_status_cache # << "offline" >>

\* C32: the same status line read outside a block cleared the session of lyrics.py
C32_StoppedStatusOutsideBlock ==
    /\ script = "lyrics"
    /\ turn.branch = "stop_line"
    /\ turn.line = KeyValueLine("status", << "Stopped" >>)
    /\ cached_song_info.title = None

----------------------------------------------------------------------------
(* C33: the lyrics of the session are in ascending order, from 0 on *)

AscendingTimestamps(lyrics) ==
    \A i \in 1..(Len(lyrics) - 1) : lyrics[i][1] <= lyrics[i + 1][1]

NoNegativeTimestamp(lyrics) == \A i \in 1..Len(lyrics) : lyrics[i][1] >= 0

\* the entries of one timestamp, in the order they have in lyrics
EntriesAt(lyrics, t) == SelectSeq(lyrics, LAMBDA e : e[1] = t)

\* the entries of the document the session names, in the order of the document
DocumentEntries == LrcScan(lyrics_files[cached_song_info.lyrics_file_path], 0, << >>)

(* C33: the lyric sequence of the session is ascending by timestamp, no      *)
(* timestamp is below 0, and the entries of one timestamp stand in the order *)
(* the document of the session lists them in.                                *)
C33_LyricsAscendingFromZero ==
    LET lyrics == cached_song_info.lyrics_parsed_content
    IN  /\ AscendingTimestamps(lyrics)
        /\ NoNegativeTimestamp(lyrics)
        /\ cached_song_info.lyrics_file_path \in DOMAIN lyrics_files =>
              \A i \in 1..Len(lyrics) :
                 EntriesAt(lyrics, lyrics[i][1]) = EntriesAt(DocumentEntries, lyrics[i][1])

\* C33: the session holds lyrics of a document with an offset that pushed a tag below zero, listed out of order, two of them on one timestamp
C33_ClampedAndReordered ==
    LET lyrics == cached_song_info.lyrics_parsed_content
    IN  /\ cached_song_info.lyrics_file_path \in DOMAIN lyrics_files
        /\ lyrics_files[cached_song_info.lyrics_file_path][1].kind = "offset"
        /\ Len(lyrics) >= 3
        /\ lyrics[1][1] = 0
        /\ lyrics # DocumentEntries
        /\ \E i \in 1..(Len(lyrics) - 1) :
              lyrics[i][1] = lyrics[i + 1][1] /\ lyrics[i][2] # lyrics[i + 1][2]

----------------------------------------------------------------------------
(* C34: the lyrics shown are those of the track the block reports *)

\* the step processed a block of a playing or paused player that names its track
TitledBlockShown ==
    /\ script = "lyrics"
    /\ turn.branch = "block"
    /\ turn.error = "none"
    /\ turn.block.title # << >>
    /\ turn.block.status \in { << "playing" >>, << "paused" >> }

\* what the lookup service holds for the title
LyricsOf(title) == parse_lrc(QQMusicDocument(title, "lyrics"))

(* C34: after a block with a non-empty title and status playing or paused,   *)
(* the session names the block's title, artist and track id, and the lyric   *)
(* sequence its snapshot was made from is the one of that title.             *)
C34_LyricsOfReportedTrack ==
    TitledBlockShown =>
       /\ cached_song_info.title = turn.block.title
       /\ cached_song_info.artist = turn.block.artist
       /\ cached_song_info.playerctl_track_id = turn.block.track_id
       /\ cached_song_info.lyrics_parsed_content \in { << >>, LyricsOf(turn.block.title) }

\* C34: a block titled "b" with track id t2 was shown with a line of the lyrics of "a", the session still naming "a" and the id it had before a block without title brought t2
C34_LyricsOfEarlierTrackShown ==
    /\ TitledBlockShown
    /\ turn.block.title = << "b" >>
    /\ turn.block.track_id = << "t2" >>
    /\ ~turn.song_changed
    /\ ~turn.resolved
    /\ cached_song_info.title = << "a" >>
    /\ cached_song_info.playerctl_track_id = << >>
    /\ cached_song_info.lyrics_parsed_content = LyricsOf(<< "a" >>)
    /\ turn.current_lyric_line = << "a", "1" >>
    /\ turn.snapshots # << >>
    /\ turn.snapshots[1].text = << "a", "1" >>

\* C34: what the code keeps: a block that is taken for a track change and has a title leaves the session naming the block's track
C34_ChangedTrackResolved ==
    (TitledBlockShown /\ turn.song_changed) =>
       /\ turn.resolved
       /\ cached_song_info.title = turn.block.title
       /\ cached_song_info.artist = turn.block.artist
       /\ cached_song_info.playerctl_track_id = turn.block.track_id
       /\ cached_song_info.lyrics_parsed_content \in { << >>, LyricsOf(turn.block.title) }

----------------------------------------------------------------------------
(* C35: no pointer is left once the player is gone *)

\* the player is gone, no block has come since, and every art task has finished
PlayerGoneAndArtSettled ==
    /\ script = "player"
    /\ current_player_status_cache = << "offline" >>
    /\ art_tasks # NotFollowed
    /\ art_tasks = << >>

(* C35: when the player has gone, no block has followed and all art tasks    *)
(* have finished, current_art.png does not exist.                            *)
C35_NoPointerAfterPlayerGone ==
    PlayerGoneAndArtSettled => current_art = None

\* C35: the clearing task had removed the link, and the download of the track before ended after it and linked its file
C35_LateFetchLinkedAfterClearing ==
    /\ PlayerGoneAndArtSettled
    /\ turn.branch = "art"
    /\ turn.art.did = "fetched"
    /\ turn.art.link_before = None
    /\ current_art = turn.art.name
    /\ current_art # None

\* C35: the clearing task itself leaves no link
C35_ClearingTaskRemovesPointer ==
    (script = "player" /\ turn.branch = "art" /\ turn.art.did = "no_metadata")
        => current_art = None

\* C35: the clearing task found a link and removed it
C35_PointerCleared ==
    /\ PlayerGoneAndArtSettled
    /\ turn.branch = "art"
    /\ turn.art.did = "no_metadata"
    /\ turn.art.link_before # None
    /\ current_art = None

----------------------------------------------------------------------------
(* C36: the reactor does not stay in an await of its subprocess *)

(* C36: whenever the reactor awaits the end of a subprocess it has not       *)
(* terminated, it is back at the head of its loop later on.                  *)
C36_AwaitReturnsToLoop == (pc = "waiting") ~> (pc = "loop")

\* C36: player.py awaits, in the handler of BrokenPipeError, a subprocess that is alive and was not killed
C36_AwaitingLiveSubprocess ==
    /\ script = "player"
    /\ pc = "waiting"
    /\ turn.error = "handled"
    /\ turn.branch # "eof"
    /\ turn.kills = 0
    /\ playerctl_process = "running"
    /\ alive = 1

\* C36: what the code keeps: after the end of the subprocess's output the reactor is back at the head of its loop
C36_AwaitAfterEofReturns == (pc = "waiting" /\ turn.branch = "eof") ~> (pc = "loop")

\* C36: the reactor awaits a subprocess that has closed its stdout
C36_AwaitingAfterEof ==
    /\ pc = "waiting"
    /\ turn.branch = "eof"
    /\ playerctl_process = "running"

----------------------------------------------------------------------------
(* C37: status checks do not pile up *)

(* C37: at most one `playerctl status` process started by the reactor is     *)
(* alive, however many read timeouts follow one another.                     *)
C37_AtMostOneStatusCheck ==
    status_checks # NotCounted => status_checks <= 1

\* C37: two read timeouts in a row, each with a status check that hung, left two status checks alive
C37_StatusChecksPileUp ==
    /\ status_checks = 2
    /\ turn.probe.how = "timeout"
    /\ turn.probes = 1
    /\ turn.kills = 0
    /\ turn.repeats \in { "probe_timeout", "probe_timeout_known" }
    /\ pc = "loop"

\* C37: what the code keeps: a status check whose communicate() returned leaves no process behind
C37_AnsweredCheckLeavesNone ==
    [][ (status_checks # NotCounted /\ turn'.probes = 1 /\ turn'.probe.how = "exit")
           => status_checks' = status_checks ]_vars

----------------------------------------------------------------------------
(* C38: a block holds the lines of its own subprocess only *)

\* the mapping the key:value lines give, the last line of a key winning
MappingOf(lines) ==
    [ k \in { KeyOf(lines[i]) : i \in 1..Len(lines) } |-> ValueOf(lines[LastWith(lines, k)]) ]

(* C38: while a block is open the accumulator holds exactly the key:value    *)
(* lines read since the last begin marker of the running subprocess; the     *)
(* block handed over at the end marker is made of those lines; outside a     *)
(* block the accumulator is empty; and after the end of the stream and after *)
(* every start of a subprocess the parser is outside a block with an empty   *)
(* accumulator.                                                              *)
C38_BlockOfCurrentSubprocess ==
    /\ (pc = "loop" /\ playerctl_process = "running" /\ is_parsing_metadata_block)
          => active_metadata_dict = MappingOf(received)
    /\ (pc = "loop" /\ playerctl_process = "running" /\ ~is_parsing_metadata_block)
          => active_metadata_dict = EmptyDict
    /\ BlockCompleted(turn) =>
          /\ turn.block.title = DictGet(MappingOf(received), << "title" >>, << >>)
          /\ turn.block.artist = DictGet(MappingOf(received), << "artist" >>, << >>)
    /\ (pc = "loop" /\ (turn.branch = "eof" \/ turn.launches > 0))
          => (~is_parsing_metadata_block /\ active_metadata_dict = EmptyDict)

\* C38: the stream ended inside a block with lines accumulated, and the parser is outside a block with nothing accumulated
C38_PartialBlockDroppedAtEof ==
    /\ turn.branch = "eof"
    /\ received # << >>
    /\ ~is_parsing_metadata_block
    /\ active_metadata_dict = EmptyDict

\* C38: a begin marker came inside a block that had lines, and the accumulator is empty
C38_BeginInsideBlock ==
    /\ turn.branch = "begin"
    /\ turn.repeats = "no"
    /\ is_parsing_metadata_block
    /\ active_metadata_dict = EmptyDict
    /\ received = << >>
    /\ turn.line \in { BeginLine, PLAYER_DATA_BEGIN_MARKER \o << "\n" >> }

\* C38: a handler has let go of the subprocess inside a block; the parser still holds the lines until the relaunch
C38_HandlerLeftBlockOpen ==
    /\ turn.error = "handled"
    /\ playerctl_process = "None"
    /\ is_parsing_metadata_block
    /\ active_metadata_dict # EmptyDict

\* C38: a block of one line was handed over by a subprocess started after another one
C38_BlockAfterRelaunch ==
    /\ BlockCompleted(turn)
    /\ Len(received) = 1
    /\ alive = 1
    /\ turn.block.title = << >>
    /\ turn.block.artist = << "x" >>

----------------------------------------------------------------------------
(* C39: a changed track or a changed art URL schedules an art task *)

\* the title, the artist, the track id and the art URL of the block that the
\* end marker read next would complete
OpenBlock ==
    [ title |-> Strip(DictGet(active_metadata_dict, << "title" >>, << >>)),
      artist |-> Strip(DictGet(active_metadata_dict, << "artist" >>, << >>)),
      track_id |-> Strip(DictGet(active_metadata_dict, << "trackid" >>, << >>)),
      art_url |-> DictGet(active_metadata_dict, << "artUrl" >>, << >>) ]

\* the open block reports another track than the block before it: by track id,
\* or by title and artist when it has no track id
ReportsAnotherTrack ==
    IF OpenBlock.track_id # << >>
    THEN OpenBlock.track_id # last_block.track_id
    ELSE OpenBlock.title # last_block.title \/ OpenBlock.artist # last_block.artist

\* the open block reports an art URL that is not the last known one
ReportsAnotherArtUrl ==
    OpenBlock.art_url # << >> /\ OpenBlock.art_url # last_known_art_url

(* C39: every block, after the first, that reports another track than the   *)
(* block before it (by track id, or by title and artist when it has no track *)
(* id) or an art URL that is not the last known one creates an art task.     *)
C39_ChangedTrackSchedulesArt ==
    [][ ( /\ turn'.branch = "block"
          /\ turn'.error = "none"
          /\ script = "player"
          /\ last_block # NoBlock
          /\ (ReportsAnotherTrack \/ ReportsAnotherArtUrl) )
        => turn'.tasks = 1 ]_vars

\* C39: a block without a track id and with another title than the block before it, which had none either, was shown and no art task was created
C39_NoArtForPlayerWithoutTrackId ==
    /\ script = "player"
    /\ turn.branch = "block"
    /\ turn.error = "none"
    /\ turn.block.track_id = << >>
    /\ turn.block.title = << "b" >>
    /\ turn.tasks = 0
    /\ art_tasks = << >>
    /\ last_processed_mpris_track_id_global = None
    /\ current_art = None

\* C39: a block with a track id that is not the recorded one created an art task
C39_NewTrackIdSchedulesArt ==
    /\ script = "player"
    /\ turn.branch = "block"
    /\ turn.block.track_id = << "t1" >>
    /\ turn.tasks = 1
    /\ Len(art_tasks) = 1

\* C39: a block with the recorded track id and another art URL created an art task
C39_NewArtUrlSchedulesArt ==
    /\ script = "player"
    /\ turn.branch = "block"
    /\ turn.block.track_id = << "t1" >>
    /\ turn.tasks = 1
    /\ turn.song_changed = FALSE
    /\ last_known_art_url = << "http", ":", "//2" >>

(* C39: of the blocks that carry a track id, every one whose track id is not *)
(* the recorded one, or whose art URL is not the last known one, creates an  *)
(* art task.                                                                 *)
C39_ChangedTrackIdSchedulesArt ==
    [][ ( /\ turn'.branch = "block"
          /\ turn'.error = "none"
          /\ script = "player"
          /\ OpenBlock.track_id # << >>
          /\ \/ OpenBlock.track_id # last_processed_mpris_track_id_global
             \/ ReportsAnotherArtUrl )
        => turn'.tasks = 1 ]_vars

----------------------------------------------------------------------------
(* C40: the cleared form of the session state of lyrics.py *)

\* the step before this state cleared the session: the only writes of the
\* session document outside a block are those of lines 429, 471 and 483
ClearedByLastStep == script = "lyrics" /\ turn.branch # "block" /\ turn.saves = 1

(* C40: in lyrics.py, whenever the stored title is empty or null the stored  *)
(* lyrics are empty and the lyrics file path, the source id and the stored   *)
(* track id are null, so stored lyrics always come with a stored title; and  *)
(* right after a clear the session is in its cleared form and the            *)
(* last-processed track id is null.                                          *)
C40_ClearedForm ==
    script = "lyrics" =>
        /\ ~Truthy(cached_song_info.title) =>
              /\ cached_song_info.lyrics_parsed_content = << >>
              /\ cached_song_info.lyrics_file_path = None
              /\ cached_song_info.qq_song_mid = None
              /\ cached_song_info.playerctl_track_id = None
        /\ cached_song_info.lyrics_parsed_content # << >> => Truthy(cached_song_info.title)
        /\ ClearedByLastStep =>
              /\ IsCleared(cached_song_info)
              /\ last_processed_playerctl_track_id_from_event = None

\* C40: a session whose lyrics had been saved to a file was cleared by a stop line, and nothing of it is left
C40_ClearedAfterLyrics ==
    /\ ClearedByLastStep
    /\ turn.branch = "stop_line"
    /\ lyrics_files # << >>
    /\ IsCleared(cached_song_info)
    /\ last_processed_playerctl_track_id_from_event = None

\* C40: a block without a title came while lyrics were stored, and the stored title and lyrics are both kept
C40_TitlelessBlockKeepsSession ==
    /\ script = "lyrics"
    /\ turn.branch = "block"
    /\ turn.error = "none"
    /\ turn.block.title = << >>
    /\ Truthy(cached_song_info.title)
    /\ cached_song_info.lyrics_parsed_content # << >>

\* C40: a status check cleared the session, and the session document written holds no title either
C40_ClearedByStatusCheck ==
    /\ ClearedByLastStep
    /\ turn.probes = 1
    /\ turn.probe.how # "none"
    /\ IsCleared(cached_song_info)
    /\ last_processed_playerctl_track_id_from_event = None
    /\ load_song_info_cache(song_info_cache_file).value.title = None

====
